---- MODULE Spec2Model ----
(***************************************************************************)
(* Model of the batch pipeline of rectranscribe (modules/batch_job.py):    *)
(* run_batch_process enumerates the unit files of a job directory, runs    *)
(* each unit of the window through transcribe and ai_precheck, persists    *)
(* the per-unit artifacts and metadata record, writes the manifest, merges *)
(* the texts of the successful units and renders the final report.         *)
(*                                                                         *)
(* Files are modelled as functions from paths to contents.  A file name    *)
(* is a sequence of atoms (the digits one by one, every other atom a       *)
(* digit-free piece of text); a text is a sequence of words, the empty     *)
(* text being << >>.                                                       *)
(***************************************************************************)
EXTENDS Integers, Sequences, FiniteSets, TLC

(* ------------------------------------------------------------------ *)
(* Bounds of the model                                                 *)
(* ------------------------------------------------------------------ *)
MaxRuns == 2
MaxStartIndex == 2
MaxSegmentsArg == 1
MaxClock == 1

(* ------------------------------------------------------------------ *)
(* File names and unit directories                                     *)
(* ------------------------------------------------------------------ *)
Digits == {"0", "1", "2", "3", "4", "5", "6", "7", "8", "9"}

DigitVal(c) ==
  CASE c = "0" -> 0 [] c = "1" -> 1 [] c = "2" -> 2 [] c = "3" -> 3 [] c = "4" -> 4
    [] c = "5" -> 5 [] c = "6" -> 6 [] c = "7" -> 7 [] c = "8" -> 8 [] c = "9" -> 9

(* code-point order of the digit-free atoms: '.' < 'n' < 'p', 't' < 'w' *)
AtomRank(a) ==
  CASE a = ".txt" -> 1 [] a = ".wav" -> 2 [] a = "notes" -> 3 [] a = "part_" -> 4

P1 == <<"part_", "1", ".wav">>
P01 == <<"part_", "0", "1", ".wav">>
P2 == <<"part_", "2", ".wav">>
P9 == <<"part_", "9", ".wav">>
P10 == <<"part_", "1", "0", ".wav">>
NOTES == <<"notes", ".txt">>

(* the unit directories of the model: the name of the directory and the *)
(* names of its entries                                                   *)
UnitDirs ==
  { [name |-> "job_20251001_123009", content |-> {NOTES}],
    [name |-> "job_20251001_123009", content |-> {P2, NOTES}],
    [name |-> "job_20251001_123009", content |-> {P9, P10}],
    [name |-> "job_20251001_123009", content |-> {P2, P10}],
    [name |-> "meeting", content |-> {P9, P10}] }

(* _JOB_DIR_PAT: ^(job_|segments_)\d{8}_\d{6}$, letter case ignored, on the *)
(* directory names of the model                                            *)
JOB_DIR_PAT_match(name) ==
  name \in {"job_20251001_123009", "SEGMENTS_20251002_080000"}

(* ------------------------------------------------------------------ *)
(* _nkey and _list_segments                                            *)
(* ------------------------------------------------------------------ *)
(* re.split(r"(\d+)", s): digit-free token, digit run, digit-free token, ... *)
RECURSIVE re_split(_)
re_split(s) ==
  IF s = << >> THEN << << >> >>
  ELSE LET r == re_split(Tail(s))
           c == Head(s)
       IN IF c \notin Digits
            THEN << <<c>> \o r[1] >> \o Tail(r)
            ELSE IF r[1] = << >> /\ Len(r) > 1
                   THEN << << >>, <<c>> \o r[2] >> \o Tail(Tail(r))
                   ELSE << << >>, <<c>> >> \o r

(* int(t) of a digit run *)
RECURSIVE int(_)
int(t) == IF t = << >> THEN 0 ELSE 10 * int(SubSeq(t, 1, Len(t) - 1)) + DigitVal(t[Len(t)])

(* t.isdigit() *)
isdigit(t) == t # << >> /\ \A i \in 1..Len(t) : t[i] \in Digits

(* [int(t) if t.isdigit() else t for t in re.split(...)] *)
nkey(s) ==
  LET toks == re_split(s)
  IN [i \in 1..Len(toks) |->
        IF isdigit(toks[i]) THEN [num |-> int(toks[i])] ELSE [str |-> toks[i]]]

(* Python's < on two str tokens *)
RECURSIVE StrLess(_, _)
StrLess(a, b) ==
  IF b = << >> THEN FALSE
  ELSE IF a = << >> THEN TRUE
  ELSE IF Head(a) # Head(b) THEN AtomRank(Head(a)) < AtomRank(Head(b))
  ELSE StrLess(Tail(a), Tail(b))

ElemLess(x, y) ==
  IF "num" \in DOMAIN x THEN x.num < y.num ELSE StrLess(x.str, y.str)

(* Python's < on two key lists *)
RECURSIVE KeyLess(_, _)
KeyLess(a, b) ==
  IF b = << >> THEN FALSE
  ELSE IF a = << >> THEN TRUE
  ELSE IF Head(a) # Head(b) THEN ElemLess(Head(a), Head(b))
  ELSE KeyLess(Tail(a), Tail(b))

(* code points of the atoms' first characters, the digits among them *)
CharRank(a) ==
  IF a \in Digits THEN 48 + DigitVal(a)
  ELSE IF a \in {".txt", ".wav"} THEN 45 + AtomRank(a) - 1
  ELSE 108 + AtomRank(a)

RECURSIVE PlainLess(_, _)
PlainLess(a, b) ==
  IF b = << >> THEN FALSE
  ELSE IF a = << >> THEN TRUE
  ELSE IF Head(a) # Head(b) THEN CharRank(Head(a)) < CharRank(Head(b))
  ELSE PlainLess(Tail(a), Tail(b))

(* variant: the names are compared as plain strings *)
SortLess_plainString(a, b) == PlainLess(a, b)

(* the order files.sort compares two names in *)
SortLess(a, b) == KeyLess(nkey(a), nkey(b))

(* list.sort is stable: an element goes after those less than it and after *)
(* the earlier ones it is not less than; rank[i] is the place of l[i]      *)
SortStable(l) ==
  LET n == Len(l)
      Before(j, i) == SortLess(l[j], l[i]) \/ (j < i /\ ~SortLess(l[i], l[j]))
      rank == [i \in 1..n |-> 1 + Cardinality({ j \in 1..n : j # i /\ Before(j, i) })] \o << >>
  IN IF n = 0 THEN << >>
     ELSE [k \in 1..n |-> l[CHOOSE i \in 1..n : rank[i] = k]] \o << >>

(* p.suffix.lower() in {".wav", ".mp3", ".m4a"} *)
Recognized(name) == name[Len(name)] \in {".wav", ".mp3", ".m4a"}

SelectRecognized(l) == SelectSeq(l, Recognized)

(* listing is os.listdir(seg_dir), in the order the filesystem gives *)
list_segments(listing) == SortStable(SelectRecognized(listing))

(* the orders os.listdir can give the entries of a directory in *)
RECURSIVE Listings(_)
Listings(content) ==
  IF content = {} THEN { << >> }
  ELSE UNION { { <<x>> \o l : l \in Listings(content \ {x}) } : x \in content }

(* ------------------------------------------------------------------ *)
(* State                                                               *)
(* ------------------------------------------------------------------ *)
VARIABLES
  dir_parent,    \* directory the resolved unit directory lies in
  dir_name,      \* name of the resolved unit directory (seg_dir.name)
  dir_content,   \* names of the entries of the unit directory
  fs,            \* the output tree: path -> content of the file
  clock,         \* the second time.strftime reads
  runs,          \* number of calls of run_batch_process so far
  pc,            \* position of the current call
  force,         \* its force argument
  start_index,   \* its start_index argument
  max_segments,  \* its max_segments argument: << >> is None, <<m>> is m
  on_progress,   \* its on_progress argument: << >> is None
  progress,      \* the invocations of on_progress the call has made
  job_id,
  all_seg_files, \* result of _list_segments(seg_dir)
  seg_files,     \* the window all_seg_files[start:end]
  idx,           \* loop counter of enumerate(seg_files, 1)
  manifest,
  transcript, review_text, revised_text,  \* locals of the loop body
  error,         \* the exception caught at the unit boundary
  merged_revised,
  analysis,      \* (summary, outline, todos) returned by run_analysis
  calls,         \* stage calls the current call has made, in order
  result,        \* value returned or exception raised by the call
  prev,          \* outcome of the preceding call
  other,         \* a second process in run_batch_process, suspended: its locals
  source,        \* names of the unit files whose content was changed since the upload
  frame,         \* the request of app.py, or the call of the adapter, at hand
  tree           \* the entries of the canonical segments root and the directory given

vars ==
  << dir_parent, dir_name, dir_content, fs, clock, runs, pc, force, start_index,
     max_segments, on_progress, progress, job_id, all_seg_files, seg_files, idx,
     manifest, transcript, review_text, revised_text, error, merged_revised, analysis, calls, result, prev,
     other, source, frame, tree >>

env_vars == << dir_parent, dir_name, dir_content, other, source, frame, tree >>
arg_vars ==
  << force, start_index, max_segments, on_progress, job_id, all_seg_files, seg_files >>
body_vars == << transcript, review_text, revised_text, error >>
tail_vars == << merged_revised, analysis >>

SEG_AUDIO_ROOT == "output/segments"
SEG_TEXT_ROOT == "output/segments_text"
FINAL_ROOT == "output/final"
LOGS_ROOT == "output/logs"

None == << >>
NoText == << >>
NoError == "none"

(* f"{abs_index:02d}" *)
Format02d(n) ==
  IF n >= 0 /\ n < 10 THEN "0" \o ToString(n) ELSE ToString(n)

(* time.strftime("%Y%m%d_%H%M%S") at the second the clock shows *)
strftime(c) == "t" \o ToString(c)

(* variant: the name of the directory is never taken as the job id *)
job_id_from_dir_timestampOnly(name, c) == "job_" \o strftime(c)

job_id_from_dir(name, c) ==
  IF JOB_DIR_PAT_match(name) THEN name ELSE "job_" \o strftime(c)

(* the paths dict of one unit *)
UnitPaths(job, seg_id) ==
  [ transcript |-> <<SEG_TEXT_ROOT, job, "seg_" \o seg_id \o "_transcript.txt">>,
    review     |-> <<SEG_TEXT_ROOT, job, "seg_" \o seg_id \o "_review.txt">>,
    revised    |-> <<SEG_TEXT_ROOT, job, "seg_" \o seg_id \o "_revised.txt">>,
    meta       |-> <<SEG_TEXT_ROOT, job, "seg_" \o seg_id \o "_meta.json">> ]

ManifestPath(job) == <<LOGS_ROOT, job, "batch_manifest_" \o job \o ".json">>

FinalPaths(job) ==
  [ transcript_txt         |-> <<FINAL_ROOT, job, "transcript.txt">>,
    transcript_review_txt  |-> <<FINAL_ROOT, job, "transcript_review.txt">>,
    transcript_revised_txt |-> <<FINAL_ROOT, job, "transcript_revised.txt">> ]

MeetingPaths(job) ==
  [ txt  |-> <<FINAL_ROOT, job, "meeting_summary.txt">>,
    docx |-> <<FINAL_ROOT, job, "meeting_summary.docx">>,
    json |-> <<FINAL_ROOT, job, "meeting_summary.json">> ]

(* variant: a file that exists is left as it is *)
Write_keepsExisting(f, p, content) ==
  [q \in DOMAIN f \cup {p} |-> IF q \in DOMAIN f THEN f[q] ELSE content]

(* open(path, "w") and write: the file is created or replaced *)
Write(f, p, content) == [q \in DOMAIN f \cup {p} |-> IF q = p THEN content ELSE f[q]]

save_text(f, p, text) == Write(f, p, text)
save_json(f, p, data) == Write(f, p, data)

(* _sha256(path): the digest stands for the content of the source file, *)
(* the uploaded one or the changed one                                   *)
sha256(audio) == <<"sha256", audio, audio \in source>>

abs_index == start_index + idx - 1
seg_id == Format02d(abs_index)
paths == UnitPaths(job_id, seg_id)
total == Len(seg_files)
audio_path == seg_files[idx]

(* variant: the metadata record is not among the files looked for *)
AllExist_textsOnly(f, ps) ==
  /\ ps.transcript \in DOMAIN f
  /\ ps.review \in DOMAIN f
  /\ ps.revised \in DOMAIN f

AllExist(f, ps) ==
  /\ ps.transcript \in DOMAIN f
  /\ ps.review \in DOMAIN f
  /\ ps.revised \in DOMAIN f
  /\ ps.meta \in DOMAIN f

(* variant: a unit whose recorded checksum is not that of its source file is *)
(* not skipped                                                              *)
SkipCondition_checksumCompared ==
  /\ ~force
  /\ AllExist(fs, paths)
  /\ "audio_sha256" \in DOMAIN fs[paths.meta] =>
       fs[paths.meta].audio_sha256 = sha256(audio_path)

(* variant: no unit is ever skipped *)
SkipCondition_never == FALSE

(* variant: the flag is read the wrong way round *)
SkipCondition_forceInverted == force /\ AllExist(fs, paths)

(* variant: the flag is not consulted *)
SkipCondition_ignoresForce == AllExist(fs, paths)

(* the test of line 213 *)
SkipCondition == (~force) /\ AllExist(fs, paths)

(* variant: start_index taken as a 0-based offset *)
Window_zeroBased(all, s, m) ==
  LET start == IF s > 0 THEN s ELSE 0
      n == Len(all)
      end == IF m = None \/ m[1] <= 0 THEN n
             ELSE IF start + m[1] < n THEN start + m[1] ELSE n
  IN IF start >= n THEN << >> ELSE SubSeq(all, start + 1, end)

(* all_seg_files[start:end] *)
Window(all, s, m) ==
  LET start == IF s - 1 > 0 THEN s - 1 ELSE 0
      n == Len(all)
      end == IF m = None \/ m[1] <= 0 THEN n
             ELSE IF start + m[1] < n THEN start + m[1] ELSE n
  IN IF start >= n THEN << >> ELSE SubSeq(all, start + 1, end)

Idle == pc \in {"idle", "done", "raised"}

(* the locals of a call before the first call *)
InitLocals ==
  /\ clock = 0
  /\ pc = "idle"
  /\ force = FALSE
  /\ start_index = 1
  /\ max_segments = None
  /\ on_progress = None
  /\ progress = << >>
  /\ job_id = ""
  /\ all_seg_files = << >>
  /\ seg_files = << >>
  /\ idx = 0
  /\ manifest = [job_id |-> "", segments_dir |-> "", preview |-> FALSE,
                 items |-> << >>, start_index |-> 1, count |-> 0]
  /\ transcript = NoText
  /\ review_text = NoText
  /\ revised_text = NoText
  /\ error = NoError
  /\ merged_revised = << >>
  /\ analysis = [summary |-> "", outline |-> << >>, todos |-> << >>]
  /\ calls = << >>
  /\ result = "none"
  /\ prev = [pc |-> "none", job_id |-> "", force |-> FALSE, start_index |-> 1,
             max_segments |-> None, items |-> << >>, calls |-> << >>,
             result |-> "none", count |-> 0, segments_dir |-> ""]
  /\ other = None
  /\ source = {}
  /\ frame = None
  /\ tree = None

(* the output tree is empty and no call has been made *)
Init ==
  /\ dir_parent = SEG_AUDIO_ROOT
  /\ \E d \in UnitDirs : dir_name = d.name /\ dir_content = d.content
  /\ fs = << >>
  /\ runs = 0
  /\ InitLocals

(* ------------------------------------------------------------------ *)
(* The stage capabilities as run_batch_process sees them               *)
(* ------------------------------------------------------------------ *)
(* transcribe(audio_path): the API error is swallowed and gives "" (lines  *)
(* 32-42); os.makedirs and .strip() lie outside that try and can raise.    *)
TranscribeOutcomes == {"raise", "empty", "text"}

transcribe_result(outcome, audio, r) ==
  IF outcome = "text" THEN << [kind |-> "transcript", src |-> audio, run |-> r] >> ELSE NoText

(* ai_precheck(text): ("", "") for an empty text without any request; an   *)
(* API or JSON error is swallowed and leaves the headings and an empty     *)
(* revised text; data.get, join and the side files can raise.              *)
PrecheckOutcomes(text) ==
  IF text = NoText THEN {"blank"} ELSE {"raise", "apierror", "ok"}

precheck_review(outcome, audio, r) ==
  CASE outcome = "blank" -> NoText
    [] outcome = "apierror" -> << [kind |-> "headings", src |-> audio, run |-> r] >>
    [] OTHER -> << [kind |-> "headings", src |-> audio, run |-> r],
                   [kind |-> "review", src |-> audio, run |-> r] >>

precheck_revised(outcome, audio, r) ==
  IF outcome = "ok" THEN << [kind |-> "revised", src |-> audio, run |-> r] >> ELSE NoText

(* what the request of ai_analyze can end in: an exception of the client,  *)
(* a reply without content, a reply that is not JSON (cut off at           *)
(* max_tokens), a reply that is JSON but not an object, the object asked   *)
(* for                                                                     *)
ReplyOutcomes == {"apierror", "empty", "badjson", "nonobject", "full"}

(* ai_analyze(text), lines 94-120: the exception is swallowed and gives "{}" *)
ai_analyze(outcome) ==
  CASE outcome = "apierror" -> "{}"
    [] outcome = "empty" -> ""
    [] outcome = "badjson" -> "{\"summary\": \"cut"
    [] outcome = "nonobject" -> "[]"
    [] OTHER -> "{\"summary\": \"s\", \"outline\": [\"o\"], \"todos\": [\"t\"]}"

(* json.loads on the replies of ai_analyze *)
json_loads(str) ==
  CASE str = "{}" -> [type |-> "dict", keys |-> {}]
    [] str = "[]" -> [type |-> "list", keys |-> {}]
    [] str = "{\"summary\": \"cut" -> [type |-> "JSONDecodeError", keys |-> {}]
    [] OTHER -> [type |-> "dict", keys |-> {"summary", "outline", "todos"}]

EmptyAnalysis == [summary |-> "", outline |-> << >>, todos |-> << >>]

(* parse_sections(ai_output), lines 148-178: only JSONDecodeError is caught; *)
(* data.get on a value that is not a dict raises AttributeError              *)
parse_sections(ai_output) ==
  LET loaded == json_loads(IF ai_output = "" THEN "{}" ELSE ai_output)
      data == IF loaded.type = "JSONDecodeError" THEN [type |-> "dict", keys |-> {}]
              ELSE loaded
  IN IF data.type # "dict" THEN [raised |-> "AttributeError", value |-> EmptyAnalysis]
     ELSE [ raised |-> NoError,
            value |-> [ summary |-> IF "summary" \in data.keys THEN "s" ELSE "",
                        outline |-> IF "outline" \in data.keys THEN <<"o">> ELSE << >>,
                        todos |-> IF "todos" \in data.keys THEN <<"t">> ELSE << >> ] ]

(* the outcomes of the request run_analysis(text) makes: none for an empty text *)
AnalysisOutcomes(text) ==
  IF text = << >> THEN {"norequest"} ELSE ReplyOutcomes

(* run_analysis(text), lines 182-195 *)
run_analysis(text, outcome) ==
  IF text = << >> THEN [raised |-> "ValueError", value |-> EmptyAnalysis]
  ELSE LET ai_output == ai_analyze(outcome)
       IN parse_sections(IF ai_output = "" THEN "{}" ELSE ai_output)

(* ------------------------------------------------------------------ *)
(* run_batch_process                                                   *)
(* ------------------------------------------------------------------ *)
StartIndexArgs == 1..MaxStartIndex
MaxSegmentsArgs == {None} \cup { <<m>> : m \in 1..MaxSegmentsArg }

(* what is kept of a call when the next one begins: its arguments, its records, *)
(* its stage calls for the units and how it ended                               *)
Summary ==
  [ pc |-> pc, job_id |-> job_id, force |-> force, start_index |-> start_index,
    max_segments |-> max_segments, items |-> manifest.items,
    calls |-> SelectSeq(calls, LAMBDA c : c.stage # "run_analysis"),
    result |-> result, count |-> manifest.count, segments_dir |-> manifest.segments_dir ]

(* str(seg_dir), the resolved unit directory *)
seg_dir == <<dir_parent, dir_name>>

(* variant: an empty enumeration is not tested for *)
NoUnits_neverTested(all) == FALSE

(* line 166: not all_seg_files *)
NoUnits(all) == all = << >>

(* lines 186-194; created_at, the time of the call, is left out of the record *)
NewManifest(job, s, n) ==
  [ job_id |-> job, segments_dir |-> seg_dir, preview |-> FALSE, items |-> << >>,
    start_index |-> s, count |-> n ]

(* lines 132-200: resolve the job, enumerate, cut the window; now is the   *)
(* second _job_id_from_dir reads when it falls back to the timestamp      *)
Start(f, s, m, cb, listing, now) ==
  LET job == job_id_from_dir(dir_name, now)
      all == list_segments(listing)
      win == Window(all, s, m)
  IN /\ runs' = runs + 1
     /\ prev' = Summary
     /\ force' = f
     /\ start_index' = s
     /\ max_segments' = m
     /\ on_progress' = cb
     /\ job_id' = job
     /\ all_seg_files' = all
     /\ calls' = << >>
     /\ transcript' = NoText
     /\ review_text' = NoText
     /\ revised_text' = NoText
     /\ error' = NoError
     /\ merged_revised' = << >>
     /\ analysis' = [summary |-> "", outline |-> << >>, todos |-> << >>]
     /\ IF NoUnits(all)
          THEN /\ pc' = "raised"
               /\ result' = "FileNotFoundError"
               /\ seg_files' = << >>
               /\ idx' = 0
               /\ manifest' = NewManifest(job, s, 0)
          ELSE /\ pc' = "loop"
               /\ result' = "none"
               /\ seg_files' = win
               /\ idx' = 1
               /\ manifest' = NewManifest(job, s, Len(win))
     /\ clock' = now
     /\ progress' = << >>
     /\ UNCHANGED << env_vars, fs >>

(* variant: no invocation is made before the first unit *)
CallbackDue_afterOnly == on_progress # None /\ pc = "loop" /\ Len(progress) < idx - 1

(* lines 196-200, 226-230, 269-273: with a callback given, one invocation is *)
(* due before the first unit and one after every unit                        *)
CallbackDue == on_progress # None /\ pc = "loop" /\ Len(progress) < idx

(* the call stands at the head of the loop, no invocation of the callback due *)
AtLoop == pc = "loop" /\ ~CallbackDue

(* the third argument of the invocation due: the start message of line 198, *)
(* the message of line 228 for a unit skipped, of line 271 for a unit        *)
(* processed, with the absolute index of the unit                            *)
ProgressMessage ==
  IF idx = 1 THEN <<"start">>
  ELSE IF \E k \in 1..Len(calls) :
            calls[k].stage = "transcribe" /\ calls[k].seg_id = Format02d(abs_index - 1)
    THEN <<"done", abs_index - 1>>
    ELSE <<"skipped", abs_index - 1>>

(* variant: an exception of the callback is not caught *)
OnProgress_propagates(raises) ==
  /\ CallbackDue
  /\ progress' = Append(progress, [done |-> idx - 1, total |-> total,
                                    message |-> ProgressMessage, raised |-> raises])
  /\ IF raises
       THEN pc' = "raised" /\ result' = "CallbackError"
       ELSE UNCHANGED << pc, result >>
  /\ UNCHANGED << env_vars, fs, clock, runs, arg_vars, idx, manifest, body_vars, tail_vars,
                  calls, prev >>

(* try: on_progress(done, total, message) except Exception: pass *)
OnProgress(raises) ==
  /\ CallbackDue
  /\ progress' = Append(progress, [done |-> idx - 1, total |-> total,
                                    message |-> ProgressMessage, raised |-> raises])
  /\ UNCHANGED << env_vars, fs, clock, runs, pc, arg_vars, idx, manifest, body_vars,
                  tail_vars, calls, result, prev >>

(* json.load of the metadata record; an unreadable file raises *)
Readable(content) == "corrupt" \notin DOMAIN content

(* variant: a unit whose metadata record cannot be read is recorded as failed *)
SkipMeta_unreadableFailed ==
  IF Readable(fs[paths.meta]) THEN fs[paths.meta]
  ELSE [seg_id |-> seg_id, audio |-> audio_path, paths |-> paths, ok |-> FALSE]

(* lines 215-224: the record a skipped unit gets *)
SkipMeta ==
  IF Readable(fs[paths.meta]) THEN fs[paths.meta]
  ELSE [seg_id |-> seg_id, audio |-> audio_path, paths |-> paths, ok |-> TRUE]

(* lines 213-231 *)
SkipUnit ==
  /\ AtLoop
  /\ idx <= total
  /\ SkipCondition
  /\ manifest' = [manifest EXCEPT !.items = Append(@, SkipMeta)]
  /\ idx' = idx + 1
  /\ UNCHANGED << env_vars, progress, fs, clock, runs, pc, arg_vars, body_vars, tail_vars, calls,
                  result, prev >>

(* line 235 *)
Transcribe(outcome) ==
  /\ AtLoop
  /\ idx <= total
  /\ ~SkipCondition
  /\ calls' = Append(calls, [stage |-> "transcribe", seg_id |-> seg_id, outcome |-> outcome])
  /\ IF outcome = "raise"
       THEN /\ pc' = "except"
            /\ error' = "TranscribeError"
            /\ UNCHANGED transcript
       ELSE /\ pc' = "precheck"
            /\ transcript' = transcribe_result(outcome, audio_path, runs)
            /\ UNCHANGED error
  /\ UNCHANGED << env_vars, progress, fs, clock, runs, arg_vars, idx, manifest, review_text,
                  revised_text, tail_vars, result, prev >>

(* line 236 *)
Precheck(outcome) ==
  /\ pc = "precheck"
  /\ outcome \in PrecheckOutcomes(transcript)
  /\ calls' = Append(calls, [stage |-> "ai_precheck", seg_id |-> seg_id, outcome |-> outcome])
  /\ IF outcome = "raise"
       THEN /\ pc' = "except"
            /\ error' = "PrecheckError"
            /\ UNCHANGED << review_text, revised_text >>
       ELSE /\ pc' = "save_transcript"
            /\ review_text' = precheck_review(outcome, audio_path, runs)
            /\ revised_text' = precheck_revised(outcome, audio_path, runs)
            /\ UNCHANGED error
  /\ UNCHANGED << env_vars, progress, fs, clock, runs, arg_vars, idx, manifest, transcript,
                  tail_vars, result, prev >>

(* line 238 *)
SaveTranscript ==
  /\ pc = "save_transcript"
  /\ fs' = save_text(fs, paths.transcript, transcript)
  /\ pc' = "save_review"
  /\ UNCHANGED << env_vars, progress, clock, runs, arg_vars, idx, manifest, body_vars, tail_vars,
                  calls, result, prev >>

(* line 239 *)
SaveReview ==
  /\ pc = "save_review"
  /\ fs' = save_text(fs, paths.review, review_text)
  /\ pc' = "save_revised"
  /\ UNCHANGED << env_vars, progress, clock, runs, arg_vars, idx, manifest, body_vars, tail_vars,
                  calls, result, prev >>

(* line 240 *)
SaveRevised ==
  /\ pc = "save_revised"
  /\ fs' = save_text(fs, paths.revised, revised_text)
  /\ pc' = "save_meta"
  /\ UNCHANGED << env_vars, progress, clock, runs, arg_vars, idx, manifest, body_vars, tail_vars,
                  calls, result, prev >>

(* lines 242-253 *)
MetaOk(sid, audio, ps, t, rv, rd) ==
  [ seg_id |-> sid,
    audio |-> audio,
    audio_sha256 |-> sha256(audio),
    paths |-> ps,
    lens |-> [transcript |-> Len(t), review |-> Len(rv), revised |-> Len(rd)],
    ok |-> TRUE ]

SuccessMeta == MetaOk(seg_id, audio_path, paths, transcript, review_text, revised_text)

(* lines 258-264 *)
FailureMeta ==
  [ seg_id |-> seg_id, audio |-> audio_path, paths |-> paths, ok |-> FALSE,
    error |-> error ]

(* lines 254-256, then the loop goes on *)
SaveMeta ==
  /\ pc = "save_meta"
  /\ fs' = save_json(fs, paths.meta, SuccessMeta)
  /\ manifest' = [manifest EXCEPT !.items = Append(@, SuccessMeta)]
  /\ idx' = idx + 1
  /\ pc' = "loop"
  /\ UNCHANGED << env_vars, progress, clock, runs, arg_vars, body_vars, tail_vars, calls, result,
                  prev >>

(* variant: the handler lets the exception go on to the caller *)
HandleException_propagates ==
  /\ pc = "except"
  /\ pc' = "raised"
  /\ result' = error
  /\ UNCHANGED << env_vars, progress, fs, clock, runs, arg_vars, idx, manifest, body_vars,
                  tail_vars, calls, prev >>

(* lines 257-267, then the loop goes on *)
HandleException ==
  /\ pc = "except"
  /\ fs' = save_json(fs, paths.meta, FailureMeta)
  /\ manifest' = [manifest EXCEPT !.items = Append(@, FailureMeta)]
  /\ idx' = idx + 1
  /\ pc' = "loop"
  /\ UNCHANGED << env_vars, progress, clock, runs, arg_vars, body_vars, tail_vars, calls, result,
                  prev >>

(* variant: the records are added to those of the manifest file found *)
SaveManifest_appends ==
  /\ AtLoop
  /\ idx > total
  /\ fs' = save_json(fs, ManifestPath(job_id),
                     IF ManifestPath(job_id) \in DOMAIN fs
                       THEN [manifest EXCEPT !.items = fs[ManifestPath(job_id)].items \o @]
                       ELSE manifest)
  /\ pc' = "stitch"
  /\ UNCHANGED << env_vars, progress, clock, runs, arg_vars, idx, manifest, body_vars, tail_vars,
                  calls, result, prev >>

(* lines 275-276 *)
SaveManifest ==
  /\ AtLoop
  /\ idx > total
  /\ fs' = save_json(fs, ManifestPath(job_id), manifest)
  /\ pc' = "stitch"
  /\ UNCHANGED << env_vars, progress, clock, runs, arg_vars, idx, manifest, body_vars, tail_vars,
                  calls, result, prev >>

(* variant: the failed records are not filtered out *)
ok_items_all(its) == its

(* line 278 *)
ok_items(items) == SelectSeq(items, LAMBDA it : it.ok)

(* lines 279-281: the paths of one kind, of the records kept *)
KindPaths(items, kind) ==
  LET kept == ok_items(items)
  IN [i \in 1..Len(kept) |-> kept[i].paths[kind]]

(* variant: the header names the directory of the path *)
stitch_namesParent(f, ps, header_prefix) ==
  [i \in 1..Len(ps) |->
     [header |-> <<header_prefix, Format02d(i), ps[i][2]>>, txt |-> f[ps[i]]]]

(* lines 283-290: one block per path, numbered from 1, headed by p.name *)
stitch(f, ps, header_prefix) ==
  [i \in 1..Len(ps) |->
     [header |-> <<header_prefix, Format02d(i), ps[i][3]>>, txt |-> f[ps[i]]]]

Merged(f, items, kind, header_prefix) ==
  LET ps == KindPaths(items, kind)
  IN IF ps # << >> THEN stitch(f, ps, header_prefix) ELSE << >>

Openable(f, items) ==
  \A k \in {"transcript", "review", "revised"} :
    \A i \in 1..Len(KindPaths(items, k)) : KindPaths(items, k)[i] \in DOMAIN f

(* lines 278-303 *)
Stitch ==
  /\ pc = "stitch"
  /\ IF Openable(fs, manifest.items)
       THEN /\ fs' = save_text(
                       save_text(
                         save_text(fs, FinalPaths(job_id).transcript_txt,
                                   Merged(fs, manifest.items, "transcript", "TRANSCRIPT SEG")),
                         FinalPaths(job_id).transcript_review_txt,
                         Merged(fs, manifest.items, "review", "REVIEW SEG")),
                       FinalPaths(job_id).transcript_revised_txt,
                       Merged(fs, manifest.items, "revised", "REVISED SEG"))
            /\ merged_revised' = Merged(fs, manifest.items, "revised", "REVISED SEG")
            /\ pc' = "analysis"
            /\ UNCHANGED result
       ELSE /\ pc' = "raised"
            /\ result' = "FileNotFoundError: open"
            /\ UNCHANGED << fs, merged_revised >>
  /\ UNCHANGED << env_vars, progress, clock, runs, arg_vars, idx, manifest, body_vars, analysis,
                  calls, prev >>

(* variant: the summarization call is issued before the merged documents are made *)
Analysis_beforeMerge(outcome) ==
  /\ pc = "stitch"
  /\ outcome \in AnalysisOutcomes(merged_revised)
  /\ calls' = Append(calls, [stage |-> "run_analysis", seg_id |-> "", outcome |-> outcome])
  /\ pc' = "raised"
  /\ result' = run_analysis(merged_revised, outcome).raised
  /\ UNCHANGED << env_vars, progress, fs, clock, runs, arg_vars, idx, manifest, body_vars,
                  tail_vars, prev >>

(* line 306 *)
Analysis(outcome) ==
  /\ pc = "analysis"
  /\ outcome \in AnalysisOutcomes(merged_revised)
  /\ calls' = Append(calls, [stage |-> "run_analysis", seg_id |-> "", outcome |-> outcome])
  /\ LET r == run_analysis(merged_revised, outcome)
     IN IF r.raised # NoError
          THEN /\ pc' = "raised"
               /\ result' = r.raised
               /\ UNCHANGED analysis
          ELSE /\ pc' = "report"
               /\ analysis' = r.value
               /\ UNCHANGED result
  /\ UNCHANGED << env_vars, progress, fs, clock, runs, arg_vars, idx, manifest, body_vars,
                  merged_revised, prev >>

(* lines 313-318 *)
ReportTxt(a) == <<"summary:", a.summary, "outline:", a.outline, "todos:", a.todos>>

(* _save_docx, lines 55-77: an empty section shows the placeholder *)
Placeholder == "(no content)"

(* variant: an empty section is left without the placeholder *)
ReportDocx_noPlaceholder(a) ==
  [ title |-> "report", summary |-> a.summary, outline |-> a.outline, todos |-> a.todos ]

ReportDocx(a) ==
  [ title |-> "report",
    summary |-> IF a.summary # "" THEN a.summary ELSE Placeholder,
    outline |-> IF a.outline # << >> THEN a.outline ELSE <<Placeholder>>,
    todos |-> IF a.todos # << >> THEN a.todos ELSE <<Placeholder>> ]

(* lines 308-331 *)
SaveReport ==
  /\ pc = "report"
  /\ fs' = save_json(
             Write(
               save_text(fs, MeetingPaths(job_id).txt, ReportTxt(analysis)),
               MeetingPaths(job_id).docx, ReportDocx(analysis)),
             MeetingPaths(job_id).json, analysis)
  /\ result' = MeetingPaths(job_id).docx
  /\ pc' = "done"
  /\ UNCHANGED << env_vars, progress, clock, runs, arg_vars, idx, manifest, body_vars, tail_vars,
                  calls, prev >>

(* the seconds the clock can show at the next call: time never runs back, *)
(* and it is read only for a directory whose name does not match          *)
Nows == IF JOB_DIR_PAT_match(dir_name) THEN {clock} ELSE clock..MaxClock

(* a caller calls run_batch_process when no call is under way *)
Call(limit, starts, segments, callbacks) ==
  /\ Idle
  /\ runs < limit
  /\ \E f \in BOOLEAN, s \in starts, m \in segments, cb \in callbacks,
        listing \in Listings(dir_content), now \in Nows :
          Start(f, s, m, cb, listing, now)

(* the steps of a call under way *)
Steps ==
  \/ SkipUnit
  \/ \E o \in TranscribeOutcomes : Transcribe(o)
  \/ \E o \in {"blank", "raise", "apierror", "ok"} : Precheck(o)
  \/ SaveTranscript
  \/ SaveReview
  \/ SaveRevised
  \/ SaveMeta
  \/ HandleException
  \/ SaveManifest
  \/ Stitch
  \/ \E o \in {"norequest"} \cup ReplyOutcomes : Analysis(o)
  \/ SaveReport

Next ==
  \/ Call(MaxRuns, StartIndexArgs, MaxSegmentsArgs, {None})
  \/ Steps

Spec == Init /\ [][Next]_vars

(* ------------------------------------------------------------------ *)
(* A single call over larger directories and wider windows             *)
(* ------------------------------------------------------------------ *)
MaxWideStart == 6
MaxWideSegments == 2

P3 == <<"part_", "3", ".wav">>
P4 == <<"part_", "4", ".wav">>
P5 == <<"part_", "5", ".wav">>

WideDirs ==
  { [name |-> "job_20251001_123009", content |-> {P1, P2, P3, P4, P5}],
    [name |-> "job_20251001_123009", content |-> {P2, P9, P10, NOTES}] }

WideStartIndexArgs == 1..MaxWideStart
WideMaxSegmentsArgs == {None} \cup { <<m>> : m \in 0..MaxWideSegments }

(* the four files an earlier call r leaves for a unit it completed *)
CompletedUnit(job, sid, audio, r) ==
  LET ps == UnitPaths(job, sid)
      t == transcribe_result("text", audio, r)
      rv == precheck_review("ok", audio, r)
      rd == precheck_revised("ok", audio, r)
  IN save_json(
       save_text(save_text(save_text(<< >>, ps.transcript, t), ps.review, rv),
                 ps.revised, rd),
       ps.meta, MetaOk(sid, audio, ps, t, rv, rd))

SortedContent(content) == list_segments(CHOOSE l \in Listings(content) : TRUE)

(* one call is left; an earlier call has completed the third unit, or none *)
InitEarlier(dirs) ==
  /\ dir_parent = SEG_AUDIO_ROOT
  /\ \E d \in dirs : dir_name = d.name /\ dir_content = d.content
  /\ runs = MaxRuns - 1
  /\ InitLocals
  /\ fs \in { << >>,
              CompletedUnit(job_id_from_dir(dir_name, 0), "03",
                            SortedContent(dir_content)[3], runs) }

InitWindow == InitEarlier(WideDirs)

NextWindow ==
  \/ Call(MaxRuns, WideStartIndexArgs, WideMaxSegmentsArgs, {None})
  \/ Steps

SpecWindow == InitWindow /\ [][NextWindow]_vars

(* ------------------------------------------------------------------ *)
(* A single call whose writes can fail                                 *)
(* ------------------------------------------------------------------ *)
(* open(path, "w") raises OSError and leaves the file as it was: inside   *)
(* the try of lines 234-256 the exception is caught at line 257; in the   *)
(* handler (line 265) and after the loop nothing catches it               *)
(* the OSError names the file that could not be written *)
OSErrorAt(position) ==
  CASE position = "except" -> "OSError: meta"
    [] position = "loop" -> "OSError: manifest"
    [] position = "stitch" -> "OSError: final"
    [] OTHER -> "OSError: report"

(* variant: a failed write of the manifest is swallowed and the call goes on *)
WriteFails_manifestSwallowed ==
  /\ \/ /\ pc \in {"save_transcript", "save_review", "save_revised", "save_meta"}
        /\ pc' = "except"
        /\ error' = "OSError"
        /\ UNCHANGED result
     \/ /\ pc \in {"except", "stitch", "report"}
        /\ pc' = "raised"
        /\ result' = OSErrorAt(pc)
        /\ UNCHANGED error
     \/ /\ AtLoop /\ idx > total
        /\ pc' = "stitch"
        /\ UNCHANGED << result, error >>
  /\ UNCHANGED << env_vars, progress, fs, clock, runs, arg_vars, idx, manifest, transcript,
                  review_text, revised_text, tail_vars, calls, prev >>

WriteFails ==
  /\ \/ /\ pc \in {"save_transcript", "save_review", "save_revised", "save_meta"}
        /\ pc' = "except"
        /\ error' = "OSError"
        /\ UNCHANGED result
     \/ /\ \/ pc = "except"
           \/ AtLoop /\ idx > total
           \/ pc = "stitch"
           \/ pc = "report"
        /\ pc' = "raised"
        /\ result' = OSErrorAt(pc)
        /\ UNCHANGED error
  /\ UNCHANGED << env_vars, progress, fs, clock, runs, arg_vars, idx, manifest, transcript,
                  review_text, revised_text, tail_vars, calls, prev >>

IODirs ==
  { [name |-> "job_20251001_123009", content |-> {P2, P9, P10}] }

InitIO == InitEarlier(IODirs)

NextIO ==
  \/ Call(MaxRuns, StartIndexArgs, MaxSegmentsArgs, {None})
  \/ Steps
  \/ WriteFails

SpecIO == InitIO /\ [][NextIO]_vars

(* ------------------------------------------------------------------ *)
(* A single call with a progress callback                              *)
(* ------------------------------------------------------------------ *)
Callbacks == {None, <<"callback">>}

InitProgress == InitEarlier(IODirs)

NextProgress ==
  \/ Call(MaxRuns, StartIndexArgs, MaxSegmentsArgs, Callbacks)
  \/ Steps
  \/ \E raises \in BOOLEAN : OnProgress(raises)

SpecProgress == InitProgress /\ [][NextProgress]_vars

(* ------------------------------------------------------------------ *)
(* Calls that can be interrupted                                       *)
(* ------------------------------------------------------------------ *)
(* KeyboardInterrupt and SystemExit are no Exception: the except of line   *)
(* 257 does not catch them, and a killed process ends the same way.  The   *)
(* interruption comes before the statement the call stands at, or during a *)
(* write (open(path, "w") has created the file, its content is cut off),   *)
(* or after the write of the metadata record and before the record is      *)
(* appended to the manifest.                                               *)
WritePositions == {"save_transcript", "save_review", "save_revised", "save_meta", "except"}

WriteTarget(position) ==
  CASE position = "save_transcript" -> paths.transcript
    [] position = "save_review" -> paths.review
    [] position = "save_revised" -> paths.revised
    [] OTHER -> paths.meta

(* what a write cut off leaves in the file *)
CutOff(position) ==
  IF position \in {"save_meta", "except"} THEN [corrupt |-> TRUE] ELSE NoText

(* the traceback of the interruption names the write it came in *)
InterruptedIn(cut, position) ==
  IF cut = "before" THEN "KeyboardInterrupt"
  ELSE IF position \in {"save_meta", "except"}
    THEN (IF cut = "during" THEN "KeyboardInterrupt in _save_json"
          ELSE "KeyboardInterrupt after _save_json")
    ELSE "KeyboardInterrupt in _save_text"

Interrupt(cut) ==
  /\ pc \in WritePositions \cup {"loop", "precheck", "stitch", "analysis", "report"}
  /\ cut = "during" => pc \in WritePositions
  /\ cut = "after" => pc \in {"save_meta", "except"}
  /\ fs' = CASE cut = "before" -> fs
            [] cut = "during" -> Write(fs, WriteTarget(pc), CutOff(pc))
            [] OTHER -> save_json(fs, paths.meta,
                                  IF pc = "save_meta" THEN SuccessMeta ELSE FailureMeta)
  /\ pc' = "raised"
  /\ result' = InterruptedIn(cut, pc)
  /\ UNCHANGED << env_vars, progress, clock, runs, arg_vars, idx, manifest, body_vars,
                  tail_vars, calls, prev >>

Cuts == {"before", "during", "after"}

(* two calls over a job of two units, the whole directory each time *)
InterruptDirs ==
  { [name |-> "job_20251001_123009", content |-> {P9, P10}] }

InitInterrupt ==
  /\ dir_parent = SEG_AUDIO_ROOT
  /\ \E d \in InterruptDirs : dir_name = d.name /\ dir_content = d.content
  /\ fs = << >>
  /\ runs = 0
  /\ InitLocals

NextInterrupt ==
  \/ Call(MaxRuns, {1}, {None}, {None})
  \/ Steps
  \/ \E cut \in Cuts : Interrupt(cut)

SpecInterrupt == InitInterrupt /\ [][NextInterrupt]_vars

(* three calls over a job of one unit *)
MaxResumeRuns == 3

ResumeDirs ==
  { [name |-> "job_20251001_123009", content |-> {P9}] }

InitResume ==
  /\ dir_parent = SEG_AUDIO_ROOT
  /\ \E d \in ResumeDirs : dir_name = d.name /\ dir_content = d.content
  /\ fs = << >>
  /\ runs = 0
  /\ InitLocals

NextResume ==
  \/ Call(MaxResumeRuns, {1}, {None}, {None})
  \/ Steps
  \/ \E cut \in Cuts : Interrupt(cut)

SpecResume == InitResume /\ [][NextResume]_vars

(* ------------------------------------------------------------------ *)
(* Calls over the job directories of two users                         *)
(* ------------------------------------------------------------------ *)
(* upload() of app.py makes the job directory job_<second of the upload>  *)
(* under the segments directory of the user and split_audio fills it with *)
(* part_01.wav, ...: two users who upload in the same second get          *)
(* directories of the same name under different parents                   *)
SharedDirs ==
  { [parent |-> "output/segments/user_1", name |-> "job_20251001_123009", content |-> {P01}],
    [parent |-> "output/segments/user_2", name |-> "job_20251001_123009", content |-> {P01}] }

(* run() of app.py passes the job directory of the session of the user *)
SelectDir(d) ==
  /\ Idle
  /\ <<d.parent, d.name>> # seg_dir
  /\ dir_parent' = d.parent
  /\ dir_name' = d.name
  /\ dir_content' = d.content
  /\ UNCHANGED << other, source, frame, tree, fs, clock, runs, pc, arg_vars, progress, idx, manifest, body_vars,
                  tail_vars, calls, result, prev >>

InitShared ==
  /\ \E d \in SharedDirs :
       dir_parent = d.parent /\ dir_name = d.name /\ dir_content = d.content
  /\ fs = << >>
  /\ runs = 0
  /\ InitLocals

NextShared ==
  \/ \E d \in SharedDirs : SelectDir(d)
  \/ Call(MaxRuns, {1}, {None}, {None})
  \/ Steps

SpecShared == InitShared /\ [][NextShared]_vars

(* ------------------------------------------------------------------ *)
(* Two processes in run_batch_process over the same job directory      *)
(* ------------------------------------------------------------------ *)
(* the locals of the running process and the number of its call *)
Locals ==
  [ pc |-> pc, runs |-> runs, force |-> force, start_index |-> start_index,
    max_segments |-> max_segments, on_progress |-> on_progress, progress |-> progress,
    job_id |-> job_id, all_seg_files |-> all_seg_files, seg_files |-> seg_files,
    idx |-> idx, manifest |-> manifest, transcript |-> transcript,
    review_text |-> review_text, revised_text |-> revised_text, error |-> error,
    merged_revised |-> merged_revised, analysis |-> analysis, calls |-> calls,
    result |-> result ]

(* the locals of a process that has not called yet, n calls having begun *)
FreshLocals(n) ==
  [ pc |-> "idle", runs |-> n, force |-> FALSE, start_index |-> 1,
    max_segments |-> None, on_progress |-> None, progress |-> << >>,
    job_id |-> "", all_seg_files |-> << >>, seg_files |-> << >>,
    idx |-> 0,
    manifest |-> [job_id |-> "", segments_dir |-> "", preview |-> FALSE,
                  items |-> << >>, start_index |-> 1, count |-> 0],
    transcript |-> NoText, review_text |-> NoText, revised_text |-> NoText,
    error |-> NoError, merged_revised |-> << >>,
    analysis |-> [summary |-> "", outline |-> << >>, todos |-> << >>],
    calls |-> << >>, result |-> "none" ]

(* the process with the locals l runs on *)
Resume(l) ==
  /\ pc' = l.pc
  /\ runs' = l.runs
  /\ force' = l.force
  /\ start_index' = l.start_index
  /\ max_segments' = l.max_segments
  /\ on_progress' = l.on_progress
  /\ progress' = l.progress
  /\ job_id' = l.job_id
  /\ all_seg_files' = l.all_seg_files
  /\ seg_files' = l.seg_files
  /\ idx' = l.idx
  /\ manifest' = l.manifest
  /\ transcript' = l.transcript
  /\ review_text' = l.review_text
  /\ revised_text' = l.revised_text
  /\ error' = l.error
  /\ merged_revised' = l.merged_revised
  /\ analysis' = l.analysis
  /\ calls' = l.calls
  /\ result' = l.result

(* a second process is started while the call of the first is under way: *)
(* nothing in run_batch_process looks for another process or takes a lock *)
Spawn ==
  /\ other = None
  /\ ~Idle
  /\ other' = Locals
  /\ Resume(FreshLocals(runs))
  /\ UNCHANGED << dir_parent, dir_name, dir_content, source, frame, tree, fs, clock, prev >>

(* the scheduler suspends the running process at any statement and lets the *)
(* other, not yet finished, run on                                          *)
Switch ==
  /\ other # None
  /\ other.pc \notin {"done", "raised"}
  /\ other' = Locals
  /\ Resume(other)
  /\ UNCHANGED << dir_parent, dir_name, dir_content, source, frame, tree, fs, clock, prev >>

(* each process makes one call *)
CallOnce ==
  /\ pc = "idle"
  /\ Call(MaxRuns, {1}, {None}, {None})

InitConcurrent ==
  /\ dir_parent = SEG_AUDIO_ROOT
  /\ \E d \in ResumeDirs : dir_name = d.name /\ dir_content = d.content
  /\ fs = << >>
  /\ runs = 0
  /\ InitLocals

NextConcurrent ==
  \/ CallOnce
  \/ Steps
  \/ Spawn
  \/ Switch

SpecConcurrent == InitConcurrent /\ [][NextConcurrent]_vars

(* ------------------------------------------------------------------ *)
(* Calls between which the source files can change                     *)
(* ------------------------------------------------------------------ *)
(* between two calls the content of a unit file is replaced, its name kept *)
EditSource(name) ==
  /\ Idle
  /\ name \in dir_content \ source
  /\ source' = source \cup {name}
  /\ UNCHANGED << dir_parent, dir_name, dir_content, other, frame, tree, fs, clock, runs, pc,
                  arg_vars, progress, idx, manifest, body_vars, tail_vars, calls, result, prev >>

InitSource ==
  /\ dir_parent = SEG_AUDIO_ROOT
  /\ \E d \in InterruptDirs : dir_name = d.name /\ dir_content = d.content
  /\ fs = << >>
  /\ runs = 0
  /\ InitLocals

NextSource ==
  \/ Call(MaxRuns, {1}, {None}, {None})
  \/ Steps
  \/ \E name \in dir_content : EditSource(name)

SpecSource == InitSource /\ [][NextSource]_vars

(* ------------------------------------------------------------------ *)
(* Properties                                                          *)
(* ------------------------------------------------------------------ *)
items == manifest.items

(* unit id of the i-th unit of the window *)
ItemSeg(i) == Format02d(start_index + i - 1)
PrevSeg(j) == Format02d(prev.start_index + j - 1)

CallIdx(cs, stage, sid) ==
  { k \in 1..Len(cs) : cs[k].stage = stage /\ cs[k].seg_id = sid }

CallsFor(cs, sid) == SelectSeq(cs, LAMBDA c : c.seg_id = sid)

TranscribeRaised(sid) ==
  \E k \in CallIdx(calls, "transcribe", sid) : calls[k].outcome = "raise"

StagesReturned(sid) ==
  /\ \E k \in CallIdx(calls, "transcribe", sid) : calls[k].outcome # "raise"
  /\ \E k \in CallIdx(calls, "ai_precheck", sid) : calls[k].outcome # "raise"

(* the call has left the unit loop *)
LoopLeft ==
  \/ pc \in {"stitch", "analysis", "report", "done"}
  \/ pc = "raised" /\ result \in {"ValueError", "AttributeError", "FileNotFoundError: open"}

(* the call has written the manifest *)
ManifestWritten ==
  \/ pc \in {"stitch", "analysis", "report", "done"}
  \/ pc = "raised" /\ result \in {"ValueError", "AttributeError", "FileNotFoundError: open"}

(* the call has written the three merged documents *)
FinalWritten ==
  \/ pc \in {"analysis", "report", "done"}
  \/ pc = "raised" /\ result \in {"ValueError", "AttributeError"}

MergedDocs ==
  [ transcript |-> fs[FinalPaths(job_id).transcript_txt],
    review     |-> fs[FinalPaths(job_id).transcript_review_txt],
    revised    |-> fs[FinalPaths(job_id).transcript_revised_txt] ]

KindSet == {"transcript", "review", "revised"}

BlockNames(doc) == { doc[k].header[3] : k \in 1..Len(doc) }

(* C1: partial-failure isolation.  A unit whose transcription call raised is  *)
(* recorded with ok = FALSE and the captured error as soon as the handler has *)
(* run; every unit whose own stage calls returned is recorded with ok = TRUE; *)
(* when the loop is left every unit of the window has its record; and no      *)
(* merged document holds a block for a unit whose transcription raised.       *)
C1_PartialFailureIsolation ==
  /\ \A k \in 1..Len(calls) :
       (calls[k].stage = "transcribe" /\ calls[k].outcome = "raise") =>
         \/ pc = "except" /\ k = Len(calls)
         \/ \E i \in 1..Len(items) :
              /\ ItemSeg(i) = calls[k].seg_id
              /\ ~items[i].ok
              /\ "error" \in DOMAIN items[i]
              /\ items[i].error = "TranscribeError"
  /\ \A i \in 1..Len(items) : StagesReturned(ItemSeg(i)) => items[i].ok
  /\ LoopLeft => Len(items) = total
  /\ FinalWritten =>
       \A i \in 1..Len(items) : \A kind \in KindSet :
         TranscribeRaised(ItemSeg(i)) =>
           UnitPaths(job_id, ItemSeg(i))[kind][3] \notin BlockNames(MergedDocs[kind])

(* a finished call in which a unit raised in transcription and a later unit *)
(* was processed and succeeded                                              *)
C1_Witness ==
  /\ pc = "done"
  /\ \E i, j \in 1..Len(items) :
       /\ i < j
       /\ TranscribeRaised(ItemSeg(i))
       /\ StagesReturned(ItemSeg(j))
       /\ items[j].ok

(* the body of the idempotence claim: a call with force = FALSE that follows *)
(* another call records, for every unit both calls have a record for, the    *)
(* flag the earlier call recorded, and makes no transcription or review call *)
(* for a unit the earlier call recorded as completed (a unit the earlier     *)
(* call recorded as failed is tried again, and gets the same flag when its   *)
(* stage calls end as they did then)                                         *)
SecondRunIdempotent ==
  (runs >= 2 /\ ~force) =>
    \A i \in 1..Len(items) : \A j \in 1..Len(prev.items) :
      ItemSeg(i) = PrevSeg(j) =>
        /\ prev.items[j].ok =>
             /\ items[i].ok
             /\ CallIdx(calls, "transcribe", ItemSeg(i)) = {}
             /\ CallIdx(calls, "ai_precheck", ItemSeg(i)) = {}
        /\ (~prev.items[j].ok /\ CallsFor(calls, ItemSeg(i)) = CallsFor(prev.calls, PrevSeg(j)))
             => ~items[i].ok

(* C2 as stated: idempotence of a second call with force = FALSE, for every *)
(* unit directory                                                           *)
C2_Original == SecondRunIdempotent

(* C2 as amended: idempotence of a second call with force = FALSE over a unit *)
(* directory whose name matches the dated-job convention                      *)
C2_IdempotentForDatedJobDir == JOB_DIR_PAT_match(dir_name) => SecondRunIdempotent

(* a second call with force = FALSE has skipped a unit the first completed *)
C2_Witness ==
  /\ runs = 2
  /\ ~force
  /\ JOB_DIR_PAT_match(dir_name)
  /\ pc = "done"
  /\ \E i \in 1..Len(items) : \E j \in 1..Len(prev.items) :
       /\ ItemSeg(i) = PrevSeg(j)
       /\ prev.items[j].ok
       /\ CallIdx(prev.calls, "transcribe", PrevSeg(j)) # {}
       /\ items[i].ok

(* C3 as stated: a call over a directory with at least one recognized unit *)
(* file ends by returning the path of a document that exists               *)
C3_RunReturnsExistingDocument ==
  (all_seg_files # << >> /\ pc \in {"done", "raised"}) =>
    /\ pc = "done"
    /\ result \in DOMAIN fs

(* C4 as stated: a call whose units all failed writes three empty merged      *)
(* documents and ends with the report written, its three fields empty        *)
C4_NoSuccessStillReports ==
  (Len(items) >= 1 /\ pc \in {"done", "raised"} /\ ok_items(items) = << >>) =>
    /\ pc = "done"
    /\ \A kind \in KindSet : MergedDocs[kind] = << >>
    /\ fs[MeetingPaths(job_id).json] = [summary |-> "", outline |-> << >>, todos |-> << >>]
    /\ MeetingPaths(job_id).docx \in DOMAIN fs

(* C5 as stated: no failure while a unit is processed ends the call inside *)
(* the unit loop                                                           *)
C5_FailureStaysInLoop ==
  pc = "raised" => ~(idx >= 1 /\ idx <= total)

(* the outcome of the transcription call of a unit in the current call *)
TranscribeOutcome(sid) ==
  calls[CHOOSE k \in CallIdx(calls, "transcribe", sid) : TRUE].outcome

(* C6: force reprocessing.  In a call with force = TRUE every unit recorded so *)
(* far went through exactly one transcription call and, unless that raised,    *)
(* one review call, also when its four files existed; its metadata file holds  *)
(* the record of this attempt and, when the attempt succeeded, its transcript  *)
(* file holds the text this attempt's transcription returned.                  *)
C6_ForceReprocesses ==
  force =>
    \A i \in 1..Len(items) :
      LET sid == ItemSeg(i)
          ps == UnitPaths(job_id, sid)
      IN /\ Cardinality(CallIdx(calls, "transcribe", sid)) = 1
         /\ ~TranscribeRaised(sid) => Cardinality(CallIdx(calls, "ai_precheck", sid)) = 1
         /\ TranscribeRaised(sid) => CallIdx(calls, "ai_precheck", sid) = {}
         /\ ps.meta \in DOMAIN fs
         /\ fs[ps.meta] = items[i]
         /\ items[i].ok = StagesReturned(sid)
         /\ items[i].ok =>
              fs[ps.transcript] = transcribe_result(TranscribeOutcome(sid), items[i].audio, runs)

(* a forced call has reprocessed a unit the preceding call had completed, and *)
(* the record of the new, failed attempt has replaced the old one             *)
C6_Witness ==
  /\ force
  /\ runs = 2
  /\ prev.job_id = job_id
  /\ \E i \in 1..Len(items) : \E j \in 1..Len(prev.items) :
       /\ ItemSeg(i) = PrevSeg(j)
       /\ prev.items[j].ok
       /\ ~items[i].ok
       /\ fs[UnitPaths(job_id, ItemSeg(i)).meta] = items[i]
       /\ AllExist(fs, UnitPaths(job_id, ItemSeg(i)))

Min(a, b) == IF a < b THEN a ELSE b

(* the two-digit ids of the positions 1 .. 9 *)
TwoDigitId == <<"01", "02", "03", "04", "05", "06", "07", "08", "09">>

(* C7: windowing.  For start_index s >= 1 and max_segments m > 0 over n units *)
(* the window is the units at the positions s .. min(s+m-1, n); every record  *)
(* and every stage call of a unit is for a position of the window, under the  *)
(* two-digit id of that position; when the loop is left each position of the  *)
(* window has its record.                                                     *)
C7_Windowing ==
  (pc # "idle" /\ all_seg_files # << >> /\ start_index >= 1
     /\ max_segments # None /\ max_segments[1] > 0) =>
    LET n == Len(all_seg_files)
        lo == start_index
        hi == Min(start_index + max_segments[1] - 1, n)
    IN /\ total = (IF hi >= lo THEN hi - lo + 1 ELSE 0)
       /\ \A i \in 1..total : seg_files[i] = all_seg_files[lo + i - 1]
       /\ Len(items) <= total
       /\ LoopLeft => Len(items) = total
       /\ \A i \in 1..Len(items) :
            /\ items[i].seg_id = TwoDigitId[lo + i - 1]
            /\ items[i].audio = all_seg_files[lo + i - 1]
            /\ items[i].paths = UnitPaths(job_id, TwoDigitId[lo + i - 1])
       /\ \A k \in 1..Len(calls) :
            calls[k].stage # "run_analysis" =>
              \E q \in lo..hi : calls[k].seg_id = TwoDigitId[q]

(* start 3, max 2 over five units: the units 3 and 4, ids 03 and 04 *)
C7_Witness ==
  /\ pc = "done"
  /\ Len(all_seg_files) = 5
  /\ start_index = 3
  /\ max_segments = <<2>>
  /\ force
  /\ [i \in 1..Len(items) |-> items[i].seg_id] = <<"03", "04">>
  /\ [i \in 1..Len(items) |-> items[i].audio] = <<P3, P4>>

(* the number a unit file part_<digits>.wav carries *)
PartNumber(name) == int(SubSeq(name, 2, Len(name) - 1))

(* C8: natural order.  The enumeration holds the recognized files by rising   *)
(* number (part_2, part_9, part_10); the units are recorded and their         *)
(* transcription calls made in the order of the enumeration; the blocks of a  *)
(* merged document follow that order.                                         *)
C8_NaturalOrder ==
  /\ \A i, j \in 1..Len(all_seg_files) :
       i < j => PartNumber(all_seg_files[i]) < PartNumber(all_seg_files[j])
  /\ pc # "idle" =>
       { all_seg_files[i] : i \in 1..Len(all_seg_files) } = { f \in dir_content : Recognized(f) }
  /\ \A i \in 1..Len(items) : items[i].audio = seg_files[i]
  /\ \A k, l \in 1..Len(calls) :
       (k < l /\ calls[k].stage = "transcribe" /\ calls[l].stage = "transcribe") =>
         \E i, j \in 1..total :
           /\ i < j
           /\ calls[k].seg_id = ItemSeg(i)
           /\ calls[l].seg_id = ItemSeg(j)
  /\ FinalWritten =>
       \A kind \in KindSet : \A k, l \in 1..Len(MergedDocs[kind]) :
         (k < l /\ MergedDocs[kind][k].txt # << >> /\ MergedDocs[kind][l].txt # << >>) =>
           PartNumber(MergedDocs[kind][k].txt[1].src) < PartNumber(MergedDocs[kind][l].txt[1].src)

(* part_2, part_9 and part_10 have been processed and merged in that order *)
C8_Witness ==
  /\ pc = "done"
  /\ all_seg_files = <<P2, P9, P10>>
  /\ Len(MergedDocs["transcript"]) = 3
  /\ \A k \in 1..3 : MergedDocs["transcript"][k].txt # << >>
  /\ MergedDocs["transcript"][2].txt[1].src = P9
  /\ MergedDocs["transcript"][3].txt[1].src = P10

(* positions of the records with ok = TRUE *)
OkIndices == { i \in 1..Len(items) : items[i].ok }

(* C9: merged documents.  Once the merged documents are written, each holds *)
(* one block per record with ok = TRUE, the k-th block being that of the    *)
(* k-th such record (numbered k, named after the record's file of the kind, *)
(* holding that file's text), and no block for a record with ok = FALSE.    *)
C9_MergedBlocks ==
  FinalWritten =>
    \A kind \in KindSet :
      LET doc == MergedDocs[kind]
      IN /\ Len(doc) = Cardinality(OkIndices)
         /\ \A i \in OkIndices :
              LET k == Cardinality({ j \in OkIndices : j <= i })
              IN /\ doc[k].header[2] = TwoDigitId[k]
                 /\ doc[k].header[3] = UnitPaths(job_id, ItemSeg(i))[kind][3]
                 /\ doc[k].txt = fs[UnitPaths(job_id, ItemSeg(i))[kind]]
         /\ \A i \in (1..Len(items)) \ OkIndices :
              UnitPaths(job_id, ItemSeg(i))[kind][3] \notin BlockNames(doc)

(* a call without force has merged a skipped unit and left out a failed one *)
C9_Witness ==
  /\ pc = "done"
  /\ runs = 2
  /\ \E i, j \in 1..Len(items) :
       /\ items[i].ok
       /\ CallIdx(calls, "transcribe", ItemSeg(i)) = {}
       /\ ~items[j].ok
  /\ Len(MergedDocs["revised"]) = 1

(* C10: manifest.  Once the call has written the manifest, the manifest file  *)
(* of the job holds the records of this call, one per unit of the window and  *)
(* in the order of the window, and nothing else.                              *)
C10_ManifestOfThisRun ==
  ManifestWritten =>
    LET mf == fs[ManifestPath(job_id)]
    IN /\ mf.items = items
       /\ mf.count = total
       /\ Len(mf.items) = total
       /\ \A i \in 1..Len(mf.items) :
            /\ mf.items[i].seg_id = ItemSeg(i)
            /\ mf.items[i].paths = UnitPaths(job_id, ItemSeg(i))
            /\ "ok" \in DOMAIN mf.items[i]

(* the second call of a job has replaced a manifest of two records by one of *)
(* a single record, that of a failed unit                                    *)
C10_Witness ==
  /\ runs = 2
  /\ ManifestWritten
  /\ prev.job_id = job_id
  /\ Len(prev.items) = 2
  /\ prev.pc = "done"
  /\ Len(fs[ManifestPath(job_id)].items) = 1
  /\ ~fs[ManifestPath(job_id)].items[1].ok

(* C11: empty input.  A call over a unit directory without any recognized  *)
(* unit file ends at once with the FileNotFoundError of line 172: it makes *)
(* no stage call, records no unit, and no step of it writes a file.        *)
C11_EmptyInput ==
  [][ (~ \E f \in dir_content : Recognized(f)) =>
        /\ fs' = fs
        /\ runs' = runs + 1 =>
             /\ pc' = "raised"
             /\ result' = "FileNotFoundError"
             /\ calls' = << >>
             /\ manifest'.items = << >> ]_vars

(* the second call over a directory that holds only a file of another kind *)
(* has failed, and the output tree is still empty                          *)
C11_Witness ==
  /\ runs = 2
  /\ pc = "raised"
  /\ result = "FileNotFoundError"
  /\ dir_content = {NOTES}
  /\ fs = << >>

(* the outcomes of the summarization request that leave no usable reply *)
FailedReplies == {"apierror", "empty", "badjson", "nonobject"}

ReportWritten ==
  /\ MeetingPaths(job_id).txt \in DOMAIN fs
  /\ MeetingPaths(job_id).docx \in DOMAIN fs
  /\ MeetingPaths(job_id).json \in DOMAIN fs

(* C12 as stated: after a summarization request that failed, gave no content *)
(* or gave a malformed reply, the call goes on with an empty summary, outline *)
(* and list of action items, and ends with the three renderings written       *)
C12_SummarizeDegrades ==
  \A k \in 1..Len(calls) :
    (calls[k].stage = "run_analysis" /\ calls[k].outcome \in FailedReplies) =>
      /\ pc \in {"report", "done"}
      /\ analysis = EmptyAnalysis
      /\ pc = "done" =>
           /\ ReportWritten
           /\ fs[MeetingPaths(job_id).json] = EmptyAnalysis

(* C13: when the call has returned, the plain-text, JSON and document      *)
(* renderings of its report lie in the final directory of the job, the     *)
(* document showing the placeholder for every empty section, and the value *)
(* returned is the path of the document rendering.                         *)
C13_ReturnMeansReportWritten ==
  pc = "done" =>
    /\ ReportWritten
    /\ result = <<FINAL_ROOT, job_id, "meeting_summary.docx">>
    /\ fs[MeetingPaths(job_id).txt] = ReportTxt(analysis)
    /\ fs[MeetingPaths(job_id).json] = analysis
    /\ LET docx == fs[result]
       IN /\ docx.summary = (IF analysis.summary = "" THEN Placeholder ELSE analysis.summary)
          /\ docx.outline = (IF analysis.outline = << >> THEN <<Placeholder>>
                             ELSE analysis.outline)
          /\ docx.todos = (IF analysis.todos = << >> THEN <<Placeholder>> ELSE analysis.todos)

(* a call has returned after a summarization request that gave no content: *)
(* the three renderings are there, the document made of placeholders       *)
C13_Witness ==
  /\ pc = "done"
  /\ analysis = EmptyAnalysis
  /\ ReportWritten
  /\ fs[result].summary = Placeholder
  /\ \E k \in 1..Len(calls) : calls[k].stage = "run_analysis" /\ calls[k].outcome = "empty"

(* C14: a failed write of the manifest is not swallowed.  From the place   *)
(* where the manifest is written the call goes on only with the manifest   *)
(* file written, and otherwise ends there with the exception; a call that  *)
(* ended so has recorded every unit of its window and has written neither  *)
(* a manifest, nor a merged document, nor a rendering of the report.       *)
C14_ManifestFailureEndsRun ==
  /\ [][ (pc = "loop" /\ idx > total /\ pc' # pc) =>
           \/ /\ pc' = "stitch"
              /\ ManifestPath(job_id) \in DOMAIN fs'
              /\ fs'[ManifestPath(job_id)] = manifest
           \/ /\ pc' = "raised"
              /\ result' = "OSError: manifest"
              /\ fs' = fs ]_vars
  /\ []( (pc = "raised" /\ result = "OSError: manifest") =>
           /\ Len(items) = total
           /\ ManifestPath(job_id) \notin DOMAIN fs
           /\ \A q \in DOMAIN fs : q[1] \notin {FINAL_ROOT, LOGS_ROOT} )

(* a call that completed a unit has ended on the failed write of the *)
(* manifest, and the final directory holds nothing                   *)
C14_Witness ==
  /\ pc = "raised"
  /\ result = "OSError: manifest"
  /\ \E i \in 1..Len(items) : items[i].ok /\ StagesReturned(ItemSeg(i))
  /\ FinalPaths(job_id).transcript_txt \notin DOMAIN fs
  /\ MeetingPaths(job_id).docx \notin DOMAIN fs

(* C15: an invocation of the progress callback, whether it returns or     *)
(* raises, changes nothing of the call but the count of invocations: the  *)
(* position, the loop counter, the records, the stage calls, the files    *)
(* and the result stay as they are, so the call goes on as one whose      *)
(* callback never raises; the invocations are made in order, one before   *)
(* the first unit and one after each unit.                                *)
C15_CallbackExceptionSwallowed ==
  [][ (progress' # progress /\ runs' = runs) =>
        /\ Len(progress') = Len(progress) + 1
        /\ progress'[Len(progress')].done = Len(items)
        /\ UNCHANGED << fs, pc, idx, manifest, calls, result, body_vars, tail_vars,
                        arg_vars >> ]_vars

(* every invocation of the callback has raised, and the call has completed *)
(* its two units and returned                                              *)
C15_Witness ==
  /\ pc = "done"
  /\ total = 2
  /\ Len(progress) = 3
  /\ \A k \in 1..Len(progress) : progress[k].raised
  /\ \A i \in 1..Len(items) : items[i].ok
  /\ Len(MergedDocs["revised"]) = 2

(* the i-th unit of the window has its record and the call skipped it *)
Skipped(i) ==
  /\ ~force
  /\ i \in 1..Len(items)
  /\ CallIdx(calls, "transcribe", ItemSeg(i)) = {}

(* C16 as stated: a unit a call with force = FALSE skips is recorded with  *)
(* ok = TRUE, and each merged document the call writes holds the block of  *)
(* the unit with the text of its file                                      *)
C16_SkippedIsSucceeded ==
  \A i \in 1..Len(items) :
    Skipped(i) =>
      /\ items[i].ok
      /\ FinalWritten =>
           \A kind \in KindSet :
             \E k \in 1..Len(MergedDocs[kind]) :
               /\ MergedDocs[kind][k].header[3] = UnitPaths(job_id, ItemSeg(i))[kind][3]
               /\ MergedDocs[kind][k].txt = fs[UnitPaths(job_id, ItemSeg(i))[kind]]

(* the attempts (numbers of the calls) the pieces of a text come from *)
Attempts(text) == { text[k].run : k \in 1..Len(text) }

(* C17 as stated: the three text files and the metadata record of a unit  *)
(* that a call with force = FALSE skips come from one attempt: the texts  *)
(* carry the mark of one call, and the record is that of a completed      *)
(* attempt whose lengths are those of the three texts (a record of a      *)
(* failed stage call belongs to an attempt that wrote no text)            *)
C17_SkippedArtifactsOfOneAttempt ==
  \A i \in 1..Len(items) :
    Skipped(i) =>
      LET ps == UnitPaths(job_id, ItemSeg(i))
          meta == fs[ps.meta]
      IN /\ Cardinality(Attempts(fs[ps.transcript]) \cup Attempts(fs[ps.review])
                          \cup Attempts(fs[ps.revised])) <= 1
         /\ Readable(meta) =>
              /\ meta.ok
              /\ meta.lens = [ transcript |-> Len(fs[ps.transcript]),
                               review |-> Len(fs[ps.review]),
                               revised |-> Len(fs[ps.revised]) ]

(* C18 as stated: a call that follows a call over another unit directory *)
(* skips no unit, and the blocks of the merged documents it writes hold  *)
(* only texts of its own stage calls                                     *)
C18_NoSharedNamespace ==
  (runs = 2 /\ prev.segments_dir # manifest.segments_dir) =>
    /\ \A i \in 1..Len(items) : ~Skipped(i)
    /\ FinalWritten =>
         \A kind \in KindSet : \A k \in 1..Len(MergedDocs[kind]) :
           Attempts(MergedDocs[kind][k].txt) \subseteq {runs}

(* the ways an interrupted call can have ended *)
AnyInterruption ==
  { "KeyboardInterrupt", "KeyboardInterrupt in _save_text",
    "KeyboardInterrupt in _save_json", "KeyboardInterrupt after _save_json" }

(* the interruption came before the write of a metadata record had begun *)
BeforeMetaWrite == { "KeyboardInterrupt", "KeyboardInterrupt in _save_text" }

(* a first call over a job without artifacts was interrupted, in one of the  *)
(* given ways, before it had recorded every unit of its window: the unit it  *)
(* stood at lacks one of its four files, and a second call with              *)
(* force = FALSE makes the transcription call for that unit and skips the    *)
(* units the first call had completed                                        *)
ResumesAfter(interruptions) ==
  /\ (runs = 1 /\ pc = "raised" /\ result \in interruptions /\ Len(items) < total) =>
       ~AllExist(fs, UnitPaths(job_id, ItemSeg(Len(items) + 1)))
  /\ (runs = 2 /\ ~force /\ prev.result \in interruptions
        /\ Len(prev.items) < prev.count) =>
       \A i \in 1..Len(items) :
         /\ ItemSeg(i) = PrevSeg(Len(prev.items) + 1) =>
              CallIdx(calls, "transcribe", ItemSeg(i)) # {}
         /\ \A j \in 1..Len(prev.items) :
              (ItemSeg(i) = PrevSeg(j) /\ prev.items[j].ok) =>
                /\ CallIdx(calls, "transcribe", ItemSeg(i)) = {}
                /\ items[i].ok

(* C19 as stated: resumption after an interruption at any point of the *)
(* processing of a unit                                                *)
C19_Original == ResumesAfter(AnyInterruption)

(* C19 as amended: resumption after an interruption that came before the *)
(* write of the unit's metadata record had begun                         *)
C19_ResumesWhenInterruptedBeforeMeta == ResumesAfter(BeforeMetaWrite)

(* the first call completed unit 01 and was interrupted while it wrote a  *)
(* text of unit 02; the second call has skipped unit 01, processed unit   *)
(* 02 again and returned                                                  *)
C19_Witness ==
  /\ runs = 2
  /\ ~force
  /\ pc = "done"
  /\ prev.result = "KeyboardInterrupt in _save_text"
  /\ Len(prev.items) = 1
  /\ prev.items[1].ok
  /\ Len(items) = 2
  /\ CallIdx(calls, "transcribe", "01") = {}
  /\ CallIdx(calls, "transcribe", "02") # {}
  /\ items[2].ok

(* a call that follows another over the same unit directory has the job id  *)
(* of that call, hence its three output namespaces, and finds the four      *)
(* files of every unit that call recorded with ok = TRUE                    *)
SameJobAsBefore ==
  runs >= 2 =>
    /\ job_id = prev.job_id
    /\ UnitPaths(job_id, "01") = UnitPaths(prev.job_id, "01")
    /\ FinalPaths(job_id) = FinalPaths(prev.job_id)
    /\ ManifestPath(job_id) = ManifestPath(prev.job_id)
    /\ \A j \in 1..Len(prev.items) :
         prev.items[j].ok => AllExist(fs, UnitPaths(job_id, PrevSeg(j)))

(* C20 as stated: the same job id for both calls, whatever the name of the *)
(* unit directory                                                          *)
C20_Original == SameJobAsBefore

(* C20 as amended: for a unit directory whose name matches the dated-job   *)
(* convention the job id of every call is that name, so that a second call *)
(* has the job id and the namespaces of the first and finds its            *)
(* checkpoints                                                             *)
C20_SameJobIdForDatedDir ==
  JOB_DIR_PAT_match(dir_name) =>
    /\ runs >= 1 => job_id = dir_name
    /\ SameJobAsBefore

(* a second call over a directory with a dated name has skipped the first *)
(* unit of its window, which the first call had completed                 *)
C20_Witness ==
  /\ runs = 2
  /\ JOB_DIR_PAT_match(dir_name)
  /\ job_id = prev.job_id
  /\ prev.pc = "done"
  /\ Skipped(1)
  /\ items[1].ok
  /\ AllExist(fs, UnitPaths(prev.job_id, ItemSeg(1)))

(* the files of the unit of the j-th record of the preceding call are as that *)
(* call left them: no text holds a piece written in the current call, and    *)
(* the metadata file holds the record of the preceding call                  *)
Untouched(j) ==
  LET ps == UnitPaths(prev.job_id, PrevSeg(j))
  IN /\ \A kind \in KindSet :
          ps[kind] \in DOMAIN fs => runs \notin Attempts(fs[ps[kind]])
     /\ (ps.meta \in DOMAIN fs /\ Readable(fs[ps.meta])) => fs[ps.meta] = prev.items[j]

(* C21 as stated: a call with force = FALSE leaves the files of every unit *)
(* the preceding call wrote a metadata record for as they are              *)
C21_Original ==
  (runs >= 2 /\ ~force) => \A j \in 1..Len(prev.items) : Untouched(j)

(* C21 as amended: a call with force = FALSE leaves the files of every unit *)
(* the preceding call recorded with ok = TRUE as they are                   *)
C21_CompletedUnitNotModified ==
  (runs >= 2 /\ ~force) =>
    \A j \in 1..Len(prev.items) : prev.items[j].ok => Untouched(j)

(* the third call, with force = FALSE, has skipped the unit that the second, *)
(* forced call had rewritten, and has returned                               *)
C21_Witness ==
  /\ runs = 3
  /\ ~force
  /\ prev.force
  /\ pc = "done"
  /\ Len(prev.items) = 1
  /\ prev.items[1].ok
  /\ CallIdx(prev.calls, "transcribe", "01") # {}
  /\ Skipped(1)
  /\ Attempts(fs[UnitPaths(job_id, "01").transcript]) = {2}

(* C22 as stated: a unit for which the request of the review capability    *)
(* ended in an error of the remote service is recorded with ok = FALSE and *)
(* the captured error                                                      *)
C22_StageFailureRecordedFailed ==
  \A i \in 1..Len(items) :
    (\E k \in CallIdx(calls, "ai_precheck", ItemSeg(i)) : calls[k].outcome = "apierror") =>
      /\ ~items[i].ok
      /\ "error" \in DOMAIN items[i]

(* ------------------------------------------------------------------ *)
(* A single call with any start_index, over names that tie             *)
(* ------------------------------------------------------------------ *)
(* part_1.wav and part_01.wav have the same key under _nkey *)
ArgsDirs ==
  { [name |-> "job_20251001_123009", content |-> {P2, P9, P10}],
    [name |-> "job_20251001_123009", content |-> {P1, P01, P2}] }

(* start_index is an int the caller chooses: zero and below are not refused *)
AnyStartIndexArgs == (0 - MaxStartIndex)..MaxStartIndex

InitArgs == InitEarlier(ArgsDirs)

NextArgs ==
  \/ Call(MaxRuns, AnyStartIndexArgs, MaxSegmentsArgs, {None})
  \/ Steps

SpecArgs == InitArgs /\ [][NextArgs]_vars

(* 1-based position of a file in the full enumeration of the call *)
PositionOf(audio) == CHOOSE k \in 1..Len(all_seg_files) : all_seg_files[k] = audio

(* C23 as stated: whatever start_index is, the id in the record of a unit is *)
(* the zero-padded 1-based position of its source file in the full ordered   *)
(* enumeration of the unit directory                                         *)
C23_UnitIdIsPosition ==
  \A i \in 1..Len(items) :
    /\ items[i].seg_id = Format02d(PositionOf(items[i].audio))
    /\ items[i].paths = UnitPaths(job_id, Format02d(PositionOf(items[i].audio)))

(* C24 as stated: the enumeration the call works on is the one every order *)
(* of listing of the unchanged directory gives                             *)
C24_EnumerationIndependentOfListing ==
  pc # "idle" => \A l \in Listings(dir_content) : list_segments(l) = all_seg_files

(* C25: the stage calls of a call are made one after the other, unit by    *)
(* unit.  A transcription or review call is made for the first unit of the *)
(* window that has no record yet, every unit before it having its record,  *)
(* and before any summarization call; a unit gets one transcription call;  *)
(* the review call of a unit directly follows the transcription call of    *)
(* that unit, which returned; the summarization call is made once, when    *)
(* every unit of the window has its record and the manifest and the merged *)
(* documents of the call are written.                                      *)
C25_StageCallsSequential ==
  [][ (calls' # calls /\ runs' = runs) =>
        LET c == calls'[Len(calls')]
        IN /\ calls' = Append(calls, c)
           /\ \A k \in 1..Len(calls) : calls[k].stage # "run_analysis"
           /\ c.stage \in {"transcribe", "ai_precheck"} =>
                /\ Len(items) < total
                /\ c.seg_id = ItemSeg(Len(items) + 1)
                /\ items' = items
           /\ c.stage = "transcribe" => CallIdx(calls, "transcribe", c.seg_id) = {}
           /\ c.stage = "ai_precheck" =>
                /\ calls # << >>
                /\ calls[Len(calls)].stage = "transcribe"
                /\ calls[Len(calls)].seg_id = c.seg_id
                /\ calls[Len(calls)].outcome # "raise"
           /\ c.stage = "run_analysis" =>
                /\ Len(items) = total
                /\ pc = "analysis"
                /\ ManifestPath(job_id) \in DOMAIN fs
                /\ fs[ManifestPath(job_id)] = manifest
                /\ \A name \in DOMAIN FinalPaths(job_id) : FinalPaths(job_id)[name] \in DOMAIN fs
                /\ fs[FinalPaths(job_id).transcript_revised_txt] = merged_revised ]_vars

(* a call over two units has made the transcription and the review call of *)
(* the first, then those of the second, then the summarization call, and   *)
(* has returned                                                            *)
C25_Witness ==
  /\ pc = "done"
  /\ total = 2
  /\ Len(calls) = 5
  /\ calls[1].stage = "transcribe" /\ calls[1].seg_id = ItemSeg(1)
  /\ calls[2].stage = "ai_precheck" /\ calls[2].seg_id = ItemSeg(1)
  /\ calls[3].stage = "transcribe" /\ calls[3].seg_id = ItemSeg(2)
  /\ calls[4].stage = "ai_precheck" /\ calls[4].seg_id = ItemSeg(2)
  /\ calls[5].stage = "run_analysis"

(* C26: the pipeline takes no lock on the namespaces of a job.  While a    *)
(* second process is in run_batch_process over the same job, wherever it   *)
(* stands, each step of the running process goes on as it would alone: at  *)
(* the head of the loop, with force set or one of the unit's four files    *)
(* missing, it makes the transcription call of the unit; each write of a   *)
(* text, of the metadata record and of the manifest replaces whatever the  *)
(* file holds by the value of the running process.                         *)
C26_NoLockOnJob ==
  [][ (other # None /\ other' = other /\ runs' = runs) =>
        /\ (pc = "loop" /\ idx <= total /\ (force \/ ~AllExist(fs, paths))) =>
             /\ Len(calls') = Len(calls) + 1
             /\ calls'[Len(calls')].stage = "transcribe"
             /\ calls'[Len(calls')].seg_id = seg_id
        /\ pc = "save_transcript" =>
             (paths.transcript \in DOMAIN fs' /\ fs'[paths.transcript] = transcript)
        /\ pc = "save_review" =>
             (paths.review \in DOMAIN fs' /\ fs'[paths.review] = review_text)
        /\ pc = "save_revised" =>
             (paths.revised \in DOMAIN fs' /\ fs'[paths.revised] = revised_text)
        /\ pc = "save_meta" => (paths.meta \in DOMAIN fs' /\ fs'[paths.meta] = SuccessMeta)
        /\ pc = "except" => (paths.meta \in DOMAIN fs' /\ fs'[paths.meta] = FailureMeta)
        /\ (pc = "loop" /\ idx > total) =>
             (ManifestPath(job_id) \in DOMAIN fs' /\ fs'[ManifestPath(job_id)] = manifest)
    ]_vars

(* two processes have run over the same job and both have returned; both   *)
(* made the stage calls of unit 01 and recorded it with ok = TRUE; the     *)
(* transcript file the running process wrote holds the text of the other,  *)
(* and the metadata file and the manifest the other wrote hold the record  *)
(* and the manifest of the running process                                 *)
C26_Witness ==
  /\ other # None
  /\ pc = "done"
  /\ other.pc = "done"
  /\ job_id = other.job_id
  /\ StagesReturned("01")
  /\ \E k \in CallIdx(other.calls, "ai_precheck", "01") : other.calls[k].outcome # "raise"
  /\ items[1].ok
  /\ other.manifest.items[1].ok
  /\ transcript # other.transcript
  /\ fs[UnitPaths(job_id, "01").transcript] = other.transcript
  /\ items[1] # other.manifest.items[1]
  /\ fs[UnitPaths(job_id, "01").meta] = items[1]
  /\ manifest # other.manifest
  /\ fs[ManifestPath(job_id)] = manifest

(* C27 as stated: the record of a unit the call processed and recorded with *)
(* ok = FALSE lists no path of a text the attempt did not write: every text *)
(* path the record lists is that of a file in the output tree               *)
C27_FailureRecordListsWrittenOnly ==
  \A i \in 1..Len(items) :
    (~items[i].ok /\ CallIdx(calls, "transcribe", ItemSeg(i)) # {}) =>
      \A kind \in DOMAIN items[i].paths \cap KindSet :
        items[i].paths[kind] \in DOMAIN fs

(* the record that stands for a metadata file that could not be read *)
MinimalRecord(it) == DOMAIN it = {"seg_id", "audio", "paths", "ok"}

(* C28: when the call, with force = FALSE, comes to a unit whose four files *)
(* exist and whose metadata file cannot be read, it makes no stage call and *)
(* writes no file for the unit and records it with ok = TRUE in a record of *)
(* the unit id, the name of the source file and the four paths, without a   *)
(* checksum; and the merged documents the call writes hold the block of     *)
(* every unit recorded so, with the text of the unit's file.                *)
C28_UnreadableMetaSkippedAsSucceeded ==
  /\ [][ ( /\ pc = "loop" /\ idx <= total
           /\ ~force /\ AllExist(fs, paths) /\ ~Readable(fs[paths.meta])
           /\ pc' # "raised" ) =>
           /\ calls' = calls
           /\ fs' = fs
           /\ idx' = idx + 1
           /\ items' = Append(items, [seg_id |-> seg_id, audio |-> audio_path,
                                      paths |-> paths, ok |-> TRUE])
           /\ "audio_sha256" \notin DOMAIN items'[Len(items')] ]_vars
  /\ []( \A i \in 1..Len(items) :
           (MinimalRecord(items[i]) /\ FinalWritten) =>
             \A kind \in KindSet :
               \E k \in 1..Len(MergedDocs[kind]) :
                 /\ MergedDocs[kind][k].header[3] = UnitPaths(job_id, ItemSeg(i))[kind][3]
                 /\ MergedDocs[kind][k].txt = fs[UnitPaths(job_id, ItemSeg(i))[kind]] )

(* the first call was interrupted while it wrote the metadata record of    *)
(* unit 01; the second, with force = FALSE, has made no stage call for the *)
(* unit, has recorded it with the minimal record and has returned, the     *)
(* merged transcript holding the text of the unit                          *)
C28_Witness ==
  /\ runs = 2
  /\ ~force
  /\ pc = "done"
  /\ prev.result = "KeyboardInterrupt in _save_json"
  /\ ~Readable(fs[UnitPaths(job_id, "01").meta])
  /\ CallsFor(calls, "01") = << >>
  /\ MinimalRecord(items[1])
  /\ items[1].ok
  /\ MergedDocs["transcript"][1].txt = fs[UnitPaths(job_id, "01").transcript]
  /\ MergedDocs["transcript"][1].txt # NoText

(* the step records the unit at hand without a stage call and without a write *)
SkipStep ==
  /\ calls' = calls
  /\ fs' = fs
  /\ idx' = idx + 1
  /\ Len(items') = Len(items) + 1

(* C29: the decision to skip a unit depends only on force and on the       *)
(* existence of the unit's four files.  At the head of the loop the call   *)
(* skips the unit if force is FALSE and the four files exist, and makes    *)
(* the transcription call otherwise; with a readable metadata record whose *)
(* checksum is not that of the source file as it is now, the unit is       *)
(* skipped all the same and gets the record found, old checksum included.  *)
C29_SkipIgnoresChecksum ==
  [][ (pc = "loop" /\ idx <= total) =>
        /\ ((~force) /\ AllExist(fs, paths)) => SkipStep
        /\ (force \/ ~AllExist(fs, paths)) =>
             /\ Len(calls') = Len(calls) + 1
             /\ calls'[Len(calls')].stage = "transcribe"
        /\ ( /\ ~force
             /\ AllExist(fs, paths)
             /\ Readable(fs[paths.meta])
             /\ "audio_sha256" \in DOMAIN fs[paths.meta]
             /\ fs[paths.meta].audio_sha256 # sha256(audio_path) ) =>
             /\ SkipStep
             /\ items'[Len(items')] = fs[paths.meta]
             /\ items'[Len(items')].audio_sha256 # sha256(audio_path) ]_vars

(* the first call completed unit 01; the content of its source file was   *)
(* changed; the second call, with force = FALSE, has made no stage call   *)
(* for the unit, has recorded it with the checksum of the old content and *)
(* has returned                                                           *)
C29_Witness ==
  /\ runs = 2
  /\ ~force
  /\ pc = "done"
  /\ prev.pc = "done"
  /\ seg_files[1] \in source
  /\ CallsFor(calls, "01") = << >>
  /\ CallIdx(prev.calls, "transcribe", "01") # {}
  /\ items[1].ok
  /\ items[1].audio_sha256 = <<"sha256", seg_files[1], FALSE>>
  /\ items[1].audio_sha256 # sha256(seg_files[1])

(* the call has begun the i-th unit of its window: a stage call was made for *)
(* it or it has its record                                                   *)
Begun(i) == i <= Len(items) \/ CallsFor(calls, ItemSeg(i)) # << >>

(* C30 as stated: each unit of the window has an invocation of its own     *)
(* before it is begun and one after it has its record, so that 2i - 1      *)
(* invocations are made before the i-th unit is begun and 2i once the call *)
(* has gone on from it                                                     *)
C30_Original ==
  on_progress # None =>
    \A i \in 1..total :
      /\ Begun(i) => Len(progress) >= 2 * i - 1
      /\ (Begun(i + 1) \/ pc \in {"stitch", "analysis", "report", "done"}) =>
           Len(progress) >= 2 * i

(* C30 as amended: with a callback given, one invocation is made before    *)
(* the first unit of the window and one after each unit has its record,    *)
(* the one after a unit being the only one before the next: an invocation  *)
(* is made before each unit is begun.  The k-th invocation is              *)
(* made with k - 1 as the count of units done, the size of the window as   *)
(* the total and a message: the start message for the first, and for the   *)
(* others the message that tells whether the unit just recorded was        *)
(* skipped or processed, with its absolute index.  No invocation is made   *)
(* for a unit that has no record yet, and when the loop is left the        *)
(* invocations are one more than the units.                                *)
C30_CallbackAtStartAndAfterEachUnit ==
  on_progress # None =>
    /\ \A i \in 1..total : Begun(i) => Len(progress) >= i
    /\ Len(progress) <= Len(items) + 1
    /\ (pc \in {"stitch", "analysis", "report", "done"}) => Len(progress) = total + 1
    /\ \A k \in 1..Len(progress) :
         /\ progress[k].done = k - 1
         /\ progress[k].total = total
         /\ k = 1 => progress[k].message = <<"start">>
         /\ k > 1 =>
              progress[k].message =
                << (IF CallIdx(calls, "transcribe", ItemSeg(k - 1)) = {}
                      THEN "skipped" ELSE "done"),
                   start_index + k - 2 >>

(* a call with a callback over a window of two units has processed the     *)
(* first, skipped the second and returned: three invocations, with 0, 1    *)
(* and 2 units done                                                        *)
C30_Witness ==
  /\ on_progress # None
  /\ pc = "done"
  /\ total = 2
  /\ Len(progress) = 3
  /\ progress[1] = [done |-> 0, total |-> 2, message |-> <<"start">>, raised |-> FALSE]
  /\ progress[2].message = <<"done", start_index>>
  /\ progress[3].message = <<"skipped", start_index + 1>>
  /\ progress[3].done = 2

(* ------------------------------------------------------------------ *)
(* The /run handler of app.py above run_batch_process                  *)
(* ------------------------------------------------------------------ *)
P02 == <<"part_", "0", "2", ".wav">>

(* get_user_dirs: the name of the subtree of a user *)
UserDir(user) == "user_" \o ToString(user)

(* the job directories upload() has made and filled for two users who uploaded *)
(* in the same second: the directories bear the same name                      *)
RunDirs ==
  { [user |-> 1, parent |-> "output/segments/user_1", name |-> "job_20251001_123009",
     content |-> {P01, P02}],
    [user |-> 2, parent |-> "output/segments/user_2", name |-> "job_20251001_123009",
     content |-> {P01}] }

(* the values of the form field max_segments: absent, digits, digits after a blank *)
FormValues == { None, <<"0">>, <<"1">>, <<"2">>, <<"9">>, <<" ", "1">> }

(* str.strip() *)
RECURSIVE strip(_)
strip(t) ==
  IF t = << >> THEN t
  ELSE IF Head(t) = " " THEN strip(Tail(t))
  ELSE IF t[Len(t)] = " " THEN strip(SubSeq(t, 1, Len(t) - 1))
  ELSE t

(* lines 318-319: the max_segments argument the handler passes *)
ParseMaxSegments(ms) ==
  LET max_segments_str == strip(ms)
  IN IF isdigit(max_segments_str) THEN << int(max_segments_str) >> ELSE None

(* line 283: session["total_segments"], the number of .wav entries of the job directory *)
TotalSegments(content) == Cardinality({ n \in content : n[Len(n)] = ".wav" })

(* lines 368-373: the quantity of the Usage row *)
UsageSeconds(ms, total_segments) ==
  LET processed_segments ==
        IF ms # << >> /\ isdigit(ms)
          THEN (IF total_segments > 0
                  THEN (IF int(ms) < total_segments THEN int(ms) ELSE total_segments)
                  ELSE int(ms))
          ELSE total_segments
  IN (IF processed_segments > 0 THEN processed_segments ELSE 0) * 300

(* lines 341-349: the final directory of the job is moved under the subtree of *)
(* the user, a directory found there being removed first                       *)
MoveFinal(f, job, user) ==
  LET moved == { q \in DOMAIN f : Len(q) = 3 /\ q[1] = FINAL_ROOT /\ q[2] = job }
      stale == { q \in DOMAIN f :
                   Len(q) = 4 /\ q[1] = FINAL_ROOT /\ q[2] = UserDir(user) /\ q[3] = job }
      kept == (DOMAIN f \ moved) \ stale
      target == { <<FINAL_ROOT, UserDir(user), job, q[3]>> : q \in moved }
  IN [ q \in kept \cup target |->
         IF q \in kept THEN f[q] ELSE f[<<FINAL_ROOT, job, q[4]>>] ]

(* lines 312-332: the Job row is added with status running and committed; d is *)
(* the job directory of the session, ms the form field. The handler drops the  *)
(* directory from the session when it returns (lines 380-383, 398-401), so the *)
(* next request comes from the other user                                      *)
RunCreateJob(d, ms, limit) ==
  /\ Idle
  /\ runs < limit
  /\ IF frame = None THEN TRUE ELSE frame.pc = "returned" /\ frame.user # d.user
  /\ dir_parent' = d.parent
  /\ dir_name' = d.name
  /\ dir_content' = d.content
  /\ frame' = [ handler |-> "run", pc |-> "created", user |-> d.user, ms |-> ms,
                max_segments |-> ParseMaxSegments(ms),
                total_segments |-> TotalSegments(d.content),
                call |-> runs + 1, status |-> "running", usage |-> None,
                report |-> None, view |-> None ]
  /\ UNCHANGED << other, source, tree, fs, clock, runs, pc, arg_vars, progress, idx, manifest,
                  body_vars, tail_vars, calls, result, prev >>

(* lines 334-339: run_batch_process(segments_dir=job_dir, max_segments=max_segments) *)
RunCall ==
  /\ Idle
  /\ frame # None
  /\ frame.handler = "run"
  /\ frame.pc = "created"
  /\ runs < frame.call
  /\ \E listing \in Listings(dir_content), now \in Nows :
       Start(FALSE, 1, frame.max_segments, None, listing, now)

(* lines 341-392 after the call has returned the path of the report, lines *)
(* 394-402 after it has raised; the commits are taken to succeed           *)
RunFinish ==
  /\ frame # None
  /\ frame.handler = "run"
  /\ frame.pc = "created"
  /\ runs = frame.call
  /\ pc \in {"done", "raised"}
  /\ IF pc = "done"
       THEN /\ fs' = MoveFinal(fs, job_id, frame.user)
            /\ frame' = [ frame EXCEPT
                            !.pc = "returned",
                            !.status = "succeeded",
                            !.usage = UsageSeconds(frame.ms, frame.total_segments),
                            !.report = <<UserDir(frame.user), job_id, result[3]>> ]
       ELSE /\ fs' = fs
            /\ frame' = [frame EXCEPT !.pc = "returned"]
  /\ UNCHANGED << dir_parent, dir_name, dir_content, other, source, tree, clock, runs, pc,
                  arg_vars, progress, idx, manifest, body_vars, tail_vars, calls, result,
                  prev >>

InitRun ==
  /\ dir_parent = SEG_AUDIO_ROOT
  /\ \E d \in RunDirs : dir_name = d.name /\ dir_content = d.content
  /\ fs = << >>
  /\ runs = 0
  /\ InitLocals

NextRun ==
  \/ \E d \in RunDirs, ms \in FormValues : RunCreateJob(d, ms, 2)
  \/ RunCall
  \/ Steps
  \/ RunFinish

SpecRun == InitRun /\ [][NextRun]_vars

(* the /run handler has returned *)
RunReturned == frame # None /\ frame.handler = "run" /\ frame.pc = "returned"

(* C31 as stated: when the /run handler has returned, the Job row it added *)
(* with status running has status succeeded or failed                      *)
C31_JobLeavesRunning ==
  RunReturned => frame.status \in {"succeeded", "failed"}

(* C32 as stated: the quantity of the Usage row added after a successful  *)
(* /run is 300 times the number of units of the window the call worked on *)
C32_UsageIsUnitsProcessed ==
  (RunReturned /\ frame.status = "succeeded") => frame.usage = 300 * manifest.count

(* ------------------------------------------------------------------ *)
(* The handlers of app.py that show and send the final artifacts       *)
(* ------------------------------------------------------------------ *)
(* a path is the sequence of its segments; ".." is the parent segment *)
RECURSIVE normpath(_)
normpath(p) ==
  IF p = << >> THEN << >>
  ELSE LET q == normpath(SubSeq(p, 1, Len(p) - 1))
           s == p[Len(p)]
       IN IF s = ".." /\ q # << >> /\ q[Len(q)] # ".."
            THEN SubSeq(q, 1, Len(q) - 1)
            ELSE Append(q, s)

(* the directories of the final folder: the folder, the subtree get_user_dirs *)
(* made for each user at upload, and every directory that holds a file        *)
isdir(f, q) ==
  \/ q = <<FINAL_ROOT>>
  \/ \E d \in RunDirs : q = <<FINAL_ROOT, UserDir(d.user)>>
  \/ \E file \in DOMAIN f : Len(q) < Len(file) /\ SubSeq(file, 1, Len(q)) = q

(* the file or directory the operating system reaches by a path: each ".." *)
(* steps up from a directory that exists                                   *)
realpath(f, p) ==
  IF \A i \in 1..Len(p) : p[i] = ".." => isdir(f, normpath(SubSeq(p, 1, i - 1)))
    THEN normpath(p)
    ELSE None

(* lines 121-122: the files read_file_text opens among the named ones of a directory *)
FilesRead(f, final_dir, names) ==
  { q \in { realpath(f, Append(final_dir, n)) : n \in names } : q \in DOMAIN f }

(* report_relpath.startswith(f"user_{id}/") on the segments of the path *)
startswith_user(rel, user) == Len(rel) > 1 /\ rel[1] = UserDir(user)

(* os.path.dirname(os.path.join(FINAL_FOLDER, rel)) *)
final_dir_of(rel) == <<FINAL_ROOT>> \o SubSeq(rel, 1, Len(rel) - 1)

(* werkzeug's safe_join under send_from_directory: the path is normalised and *)
(* refused only when it leaves the directory                                  *)
safe_join(directory, rel) ==
  LET filename == normpath(rel)
  IN IF filename = << >> \/ filename[1] = ".." THEN None ELSE directory \o filename

(* the paths a user may ask for: a report of either user, plainly or by way of *)
(* the parent segment after a user prefix                                      *)
ViewPaths ==
  LET users == { d.user : d \in RunDirs }
      jobs == { d.name : d \in RunDirs }
  IN { <<UserDir(u), j, "meeting_summary.docx">> : u \in users, j \in jobs }
       \cup { <<UserDir(u), "..", UserDir(v), j, "meeting_summary.docx">> :
                u \in users, v \in users, j \in jobs }

Returned == frame # None /\ frame.pc = "returned"

(* lines 197-215: index() checks the prefix and reads the three transcripts *)
(* of the directory of the report                                           *)
index(user, report_relpath) ==
  /\ Returned
  /\ frame' = [ frame EXCEPT !.view =
                  [ handler |-> "index", user |-> user, path |-> report_relpath,
                    files |-> IF startswith_user(report_relpath, user)
                                THEN FilesRead(fs, final_dir_of(report_relpath),
                                               {"transcript.txt", "transcript_review.txt",
                                                "transcript_revised.txt"})
                                ELSE {} ] ]
  /\ UNCHANGED << dir_parent, dir_name, dir_content, other, source, tree, fs, clock, runs, pc,
                  arg_vars, progress, idx, manifest, body_vars, tail_vars, calls, result,
                  prev >>

(* lines 405-414: download() checks the prefix and sends the file *)
download(user, filename) ==
  /\ Returned
  /\ frame' = [ frame EXCEPT !.view =
                  [ handler |-> "download", user |-> user, path |-> filename,
                    files |-> IF startswith_user(filename, user)
                                THEN { q \in {safe_join(<<FINAL_ROOT>>, filename)} :
                                         q \in DOMAIN fs }
                                ELSE {} ] ]
  /\ UNCHANGED << dir_parent, dir_name, dir_content, other, source, tree, fs, clock, runs, pc,
                  arg_vars, progress, idx, manifest, body_vars, tail_vars, calls, result,
                  prev >>

(* lines 417-440: download_zip() checks the prefix and packs every file under *)
(* the directory of the report                                                *)
download_zip(user, report) ==
  /\ Returned
  /\ frame' = [ frame EXCEPT !.view =
                  [ handler |-> "download_zip", user |-> user, path |-> report,
                    files |-> LET final_dir == realpath(fs, final_dir_of(report))
                              IN IF startswith_user(report, user) /\ final_dir # None
                                      /\ isdir(fs, final_dir)
                                   THEN { q \in DOMAIN fs :
                                            /\ Len(final_dir) < Len(q)
                                            /\ SubSeq(q, 1, Len(final_dir)) = final_dir }
                                   ELSE {} ] ]
  /\ UNCHANGED << dir_parent, dir_name, dir_content, other, source, tree, fs, clock, runs, pc,
                  arg_vars, progress, idx, manifest, body_vars, tail_vars, calls, result,
                  prev >>

(* two users whose uploads made one segment each *)
ViewDirs ==
  { [user |-> 1, parent |-> "output/segments/user_1", name |-> "job_20251001_123009",
     content |-> {P01}],
    [user |-> 2, parent |-> "output/segments/user_2", name |-> "job_20251001_123009",
     content |-> {P01}] }

InitView ==
  /\ dir_parent = SEG_AUDIO_ROOT
  /\ \E d \in ViewDirs : dir_name = d.name /\ dir_content = d.content
  /\ fs = << >>
  /\ runs = 0
  /\ InitLocals

NextView ==
  \/ \E d \in ViewDirs : RunCreateJob(d, None, 2)
  \/ RunCall
  \/ Steps
  \/ RunFinish
  \/ \E d \in ViewDirs, p \in ViewPaths : index(d.user, p)
  \/ \E d \in ViewDirs, p \in ViewPaths : download(d.user, p)
  \/ \E d \in ViewDirs, p \in ViewPaths : download_zip(d.user, p)

SpecView == InitView /\ [][NextView]_vars

(* C33: whatever path a user asks for, the handlers read only files under *)
(* the user_<id> subtree of that user in the final folder                 *)
C33_ReadsOnlyOwnSubtree ==
  (Returned /\ frame.view # None) =>
    \A q \in frame.view.files : q[1] = FINAL_ROOT /\ q[2] = UserDir(frame.view.user)

(* ------------------------------------------------------------------ *)
(* The headers of the merged documents                                 *)
(* ------------------------------------------------------------------ *)
(* the file name the atoms of a name spell *)
RECURSIVE FileName(_)
FileName(n) == IF n = << >> THEN "" ELSE n[1] \o FileName(Tail(n))

HeaderPrefix ==
  [ transcript |-> "TRANSCRIPT SEG", review |-> "REVIEW SEG", revised |-> "REVISED SEG" ]

(* C34 as stated: in every merged document the header of each block names *)
(* the sequence number of the block and the file name of the source       *)
(* (input) file of the unit                                                *)
C34_Original ==
  FinalWritten =>
    \A kind \in KindSet :
      \A k \in 1..Len(MergedDocs[kind]) :
        /\ MergedDocs[kind][k].header[2] = Format02d(k)
        /\ MergedDocs[kind][k].header[3] = FileName(ok_items(items)[k].audio)

(* C34: in every merged document the header of the k-th block names the   *)
(* kind of the document, the sequence number k in two digits, and the file *)
(* name of the per-unit text file of that kind the block was read from     *)
(* (seg_<id>_<kind>.txt of the k-th record kept), never the name of the    *)
(* audio file of the unit                                                  *)
C34_HeaderNamesTextFile ==
  FinalWritten =>
    \A kind \in KindSet :
      \A k \in 1..Len(MergedDocs[kind]) :
        LET it == ok_items(items)[k]
        IN /\ MergedDocs[kind][k].header =
                <<HeaderPrefix[kind], Format02d(k),
                  "seg_" \o it.seg_id \o "_" \o kind \o ".txt">>
           /\ MergedDocs[kind][k].header[3] = it.paths[kind][3]
           /\ MergedDocs[kind][k].header[3] # FileName(it.audio)

(* a call over part_9.wav and part_10.wav has merged both units: the second *)
(* block of the revised document is headed 02 | seg_02_revised.txt          *)
C34_Witness ==
  /\ pc = "done"
  /\ all_seg_files = <<P9, P10>>
  /\ Len(MergedDocs["revised"]) = 2
  /\ MergedDocs["revised"][2].header = <<"REVISED SEG", "02", "seg_02_revised.txt">>
  /\ FileName(ok_items(items)[2].audio) = "part_10.wav"

(* ------------------------------------------------------------------ *)
(* The root fence of run_batch_process (lines 140-151)                 *)
(* ------------------------------------------------------------------ *)
MaxMtime == 2

(* SEG_AUDIO_ROOT as a directory *)
ROOT_DIR == [parent |-> "output", name |-> "segments"]

(* the entries the root can hold: a dated job directory (or a plain file of *)
(* that name), a directory named after the other prefix in capitals, a     *)
(* directory of another name that is the newest of all, and audio files    *)
Trees ==
  { [ entries |-> a \cup b \cup { [name |-> "meeting", is_dir |-> TRUE,
                                    mtime |-> MaxMtime + 1, content |-> {P9}] },
      files |-> f ] :
      a \in { { [name |-> "job_20251001_123009", is_dir |-> d, mtime |-> t,
                 content |-> IF d THEN {P01} ELSE {}] } :
                d \in BOOLEAN, t \in 1..MaxMtime },
      b \in { {} } \cup
            { { [name |-> "SEGMENTS_20251002_080000", is_dir |-> TRUE, mtime |-> t,
                 content |-> {P2}] } : t \in 1..MaxMtime },
      f \in { {}, {P2} } }

(* variant: the candidates are sorted by mtime without reverse *)
find_latest_job_dir_oldest(t) ==
  LET candidates == { child \in t.entries : child.is_dir /\ JOB_DIR_PAT_match(child.name) }
  IN { c \in candidates : \A o \in candidates : c.mtime <= o.mtime }

(* lines 90-102: the children that are directories and match the pattern; *)
(* the first after the stable sort by mtime, newest first, is any of the   *)
(* newest, iterdir() giving the children in no fixed order. The set is     *)
(* empty where the code returns None                                       *)
find_latest_job_dir(t) ==
  LET candidates == { child \in t.entries : child.is_dir /\ JOB_DIR_PAT_match(child.name) }
  IN { c \in candidates : \A o \in candidates : c.mtime >= o.mtime }

(* the directories a caller passes: the root or a directory under it *)
Givens(t) ==
  {ROOT_DIR} \cup { [parent |-> SEG_AUDIO_ROOT, name |-> e.name] :
                      e \in { c \in t.entries : c.is_dir } }

(* the entries of a directory of the tree; of the root, its files *)
ContentOf(t, d) ==
  IF d = ROOT_DIR THEN t.files
  ELSE (CHOOSE e \in t.entries : e.name = d.name).content

(* lines 140-148: the directories seg_dir can be after the fence *)
Fence(t, given) ==
  IF given = ROOT_DIR /\ find_latest_job_dir(t) # {}
    THEN { [parent |-> SEG_AUDIO_ROOT, name |-> latest.name] : latest \in find_latest_job_dir(t) }
    ELSE {given}

(* the directories under the root are made and filled *)
MakeTree(t) ==
  /\ tree = None
  /\ pc = "idle"
  /\ tree' = t
  /\ UNCHANGED << dir_parent, dir_name, dir_content, other, source, frame, fs, clock, runs, pc,
                  arg_vars, progress, idx, manifest, body_vars, tail_vars, calls, result,
                  prev >>

(* lines 138-148: run_batch_process(given) resolves its unit directory *)
Locate(given, limit) ==
  /\ Idle
  /\ tree # None
  /\ runs < limit
  /\ IF frame = None THEN TRUE ELSE runs = frame.call
  /\ given \in Givens(tree)
  /\ \E d \in Fence(tree, given) :
       /\ dir_parent' = d.parent
       /\ dir_name' = d.name
       /\ dir_content' = ContentOf(tree, d)
  /\ frame' = [ handler |-> "run_batch_process", pc |-> "located", given |-> given,
                call |-> runs + 1 ]
  /\ UNCHANGED << other, source, tree, fs, clock, runs, pc, arg_vars, progress, idx, manifest,
                  body_vars, tail_vars, calls, result, prev >>

(* lines 150-194: the call goes on in the directory resolved *)
LocatedCall ==
  /\ Idle
  /\ frame # None
  /\ frame.handler = "run_batch_process"
  /\ runs < frame.call
  /\ \E f \in BOOLEAN, listing \in Listings(dir_content), now \in Nows :
       Start(f, 1, None, None, listing, now)

InitLocate ==
  /\ dir_parent = ROOT_DIR.parent
  /\ dir_name = ROOT_DIR.name
  /\ dir_content = {}
  /\ fs = << >>
  /\ runs = 0
  /\ InitLocals

NextLocate ==
  \/ \E t \in Trees : MakeTree(t)
  \/ \E given \in { ROOT_DIR } \cup { [parent |-> SEG_AUDIO_ROOT, name |-> n] :
                      n \in {"job_20251001_123009", "SEGMENTS_20251002_080000", "meeting"} } :
       Locate(given, 2)
  \/ LocatedCall
  \/ Steps

SpecLocate == InitLocate /\ [][NextLocate]_vars

(* the names of the directories of the tree that follow the dated-job convention *)
DatedJobDirs ==
  { e \in tree.entries :
      e.is_dir /\ e.name \in {"job_20251001_123009", "SEGMENTS_20251002_080000"} }

Located == frame # None /\ frame.handler = "run_batch_process"

(* C35: given the root with at least one immediate subdirectory of a dated *)
(* job name, the unit directory is one of those subdirectories with the    *)
(* most recent modification time; given the root without such a           *)
(* subdirectory, or another directory, it is the given directory; the call *)
(* enumerates that directory and records it in its manifest                *)
C35_RootFence ==
  Located =>
    /\ IF frame.given = ROOT_DIR /\ DatedJobDirs # {}
         THEN /\ dir_parent = SEG_AUDIO_ROOT
              /\ \E e \in DatedJobDirs :
                   /\ dir_name = e.name
                   /\ dir_content = e.content
                   /\ \A o \in DatedJobDirs : o.mtime <= e.mtime
         ELSE /\ [parent |-> dir_parent, name |-> dir_name] = frame.given
              /\ dir_content = ContentOf(tree, frame.given)
    /\ runs = frame.call =>
         /\ manifest.segments_dir = <<dir_parent, dir_name>>
         /\ { all_seg_files[i] : i \in 1..Len(all_seg_files) } =
              { n \in dir_content : Recognized(n) }

(* the root was given; it holds the dated directory job_20251001_123009, the *)
(* newer SEGMENTS_20251002_080000 and the still newer directory meeting: the *)
(* call has run in SEGMENTS_20251002_080000 and returned                     *)
C35_Witness ==
  /\ Located
  /\ frame.given = ROOT_DIR
  /\ \E a, b \in DatedJobDirs : a.mtime < b.mtime /\ b.name = dir_name
  /\ dir_name = "SEGMENTS_20251002_080000"
  /\ pc = "done"
  /\ job_id = "SEGMENTS_20251002_080000"

(* ------------------------------------------------------------------ *)
(* The segment files split_audio writes, past part_99                  *)
(* ------------------------------------------------------------------ *)
MaxParts == 101

DigitChar(d) ==
  CASE d = 0 -> "0" [] d = 1 -> "1" [] d = 2 -> "2" [] d = 3 -> "3" [] d = 4 -> "4"
    [] d = 5 -> "5" [] d = 6 -> "6" [] d = 7 -> "7" [] d = 8 -> "8" [] d = 9 -> "9"

(* the characters of str(n) *)
RECURSIVE DigitAtoms(_)
DigitAtoms(n) ==
  IF n < 10 THEN <<DigitChar(n)>> ELSE DigitAtoms(n \div 10) \o <<DigitChar(n % 10)>>

(* split_audio.py line 36: f"part_{i+1:02d}.wav", n the number i+1 *)
PartName(n) ==
  <<"part_">> \o (IF n < 10 THEN <<"0">> ELSE << >>) \o DigitAtoms(n) \o <<".wav">>

(* split_audio.py lines 33-39: the files of an audio cut into n parts *)
split_audio(n) == { PartName(i) : i \in 1..n }

(* the job directories upload() makes of audios of 100 parts and more *)
PartDirs ==
  { [name |-> "job_20251001_123009", content |-> split_audio(n)] : n \in {100, MaxParts} }

(* orders os.listdir gives the parts in: the order written, the reverse, and *)
(* the order of the names as plain strings with the parts of three digits   *)
(* among those of two                                                        *)
PartListings(n) ==
  { [i \in 1..n |-> PartName(i)],
    [i \in 1..n |-> PartName(n + 1 - i)],
    [i \in 1..n |-> PartName(IF i <= 10 THEN i
                             ELSE IF i <= 10 + (n - 99) THEN 89 + i
                             ELSE i - (n - 99))] }

(* a caller calls run_batch_process for one unit at the end of the enumeration *)
PartsCall(limit) ==
  /\ Idle
  /\ runs < limit
  /\ \E f \in BOOLEAN, s \in {99, 100, 101},
        listing \in PartListings(Cardinality(dir_content)), now \in Nows :
          Start(f, s, <<1>>, None, listing, now)

(* no call has been made, or an earlier one has completed unit 100 *)
InitParts ==
  /\ dir_parent = SEG_AUDIO_ROOT
  /\ \E d \in PartDirs : dir_name = d.name /\ dir_content = d.content
  /\ runs = 0
  /\ InitLocals
  /\ fs \in { << >>, CompletedUnit(dir_name, Format02d(100), PartName(100), 0) }

NextParts ==
  \/ PartsCall(1)
  \/ Steps

SpecParts == InitParts /\ [][NextParts]_vars

(* the number of parts split_audio wrote to the unit directory *)
PartCount == Cardinality(dir_content)

(* C36: the files split_audio writes are enumerated in the order of the   *)
(* audio they hold, part_99 before part_100 before part_101, whatever the *)
(* order the directory lists them in; the unit at position i is recorded  *)
(* under the id of i, and the ids of the positions are distinct           *)
C36_PartsInOrderPast99 ==
  runs >= 1 =>
    /\ all_seg_files = [i \in 1..PartCount |-> PartName(i)]
    /\ Cardinality({ Format02d(i) : i \in 1..PartCount }) = PartCount
    /\ \A k \in 1..Len(items) :
         /\ items[k].audio = PartName(start_index + k - 1)
         /\ items[k].seg_id = Format02d(start_index + k - 1)
         /\ items[k].seg_id \notin { Format02d(i) : i \in (1..PartCount) \ {start_index + k - 1} }

(* of 101 parts the call has processed the hundredth under the id 100 and *)
(* returned                                                               *)
C36_Witness ==
  /\ pc = "done"
  /\ PartCount = 101
  /\ start_index = 100
  /\ Len(items) = 1
  /\ items[1].ok
  /\ items[1].seg_id = "100"
  /\ items[1].audio = <<"part_", "1", "0", "0", ".wav">>
  /\ all_seg_files[99] = <<"part_", "9", "9", ".wav">>
  /\ all_seg_files[101] = <<"part_", "1", "0", "1", ".wav">>

(* ------------------------------------------------------------------ *)
(* process_audio_job of adapter.py above run_batch_process             *)
(* ------------------------------------------------------------------ *)
(* str(path) of a path of three segments *)
PathStr(p) == p[1] \o "/" \o p[2] \o "/" \o p[3]

(* a, b = value for the str run_batch_process returns: the characters of the *)
(* string are the values unpacked, and there must be two of them             *)
UnpacksToTwo(value) == Len(value) = 2

AdapterDirs ==
  { [name |-> "job_20251001_123009", content |-> {P01}],
    [name |-> "meeting", content |-> {P01, NOTES}] }

(* lines 26-34: process_audio_job(file_path) calls run_batch_process with *)
(* return_progress=True; the other arguments have their defaults         *)
AdapterCall(limit) ==
  /\ Idle
  /\ runs < limit
  /\ IF frame = None THEN TRUE ELSE frame.pc \in {"returned", "raised"}
  /\ frame' = [ handler |-> "process_audio_job", pc |-> "called", call |-> runs + 1,
                inner |-> "none", value |-> None ]
  /\ \E listing \in Listings(dir_content), now \in Nows :
       LET job == job_id_from_dir(dir_name, now)
           all == list_segments(listing)
           win == Window(all, 1, None)
       IN /\ runs' = runs + 1
          /\ prev' = Summary
          /\ force' = FALSE
          /\ start_index' = 1
          /\ max_segments' = None
          /\ on_progress' = None
          /\ job_id' = job
          /\ all_seg_files' = all
          /\ calls' = << >>
          /\ transcript' = NoText
          /\ review_text' = NoText
          /\ revised_text' = NoText
          /\ error' = NoError
          /\ merged_revised' = << >>
          /\ analysis' = [summary |-> "", outline |-> << >>, todos |-> << >>]
          /\ IF NoUnits(all)
               THEN /\ pc' = "raised"
                    /\ result' = "FileNotFoundError"
                    /\ seg_files' = << >>
                    /\ idx' = 0
                    /\ manifest' = NewManifest(job, 1, 0)
               ELSE /\ pc' = "loop"
                    /\ result' = "none"
                    /\ seg_files' = win
                    /\ idx' = 1
                    /\ manifest' = NewManifest(job, 1, Len(win))
          /\ clock' = now
          /\ progress' = << >>
  /\ UNCHANGED << dir_parent, dir_name, dir_content, other, source, tree, fs >>

(* lines 30-66: the value returned is unpacked into results_dict and       *)
(* progress_log and the 8-tuple is built; an exception of the call, or of *)
(* the unpacking, other than TypeError leaves process_audio_job            *)
AdapterFinish ==
  /\ frame # None
  /\ frame.handler = "process_audio_job"
  /\ frame.pc = "called"
  /\ runs = frame.call
  /\ pc \in {"done", "raised"}
  /\ frame' =
       IF pc = "raised"
         THEN [frame EXCEPT !.pc = "raised", !.inner = pc, !.value = result]
       ELSE IF UnpacksToTwo(PathStr(result))
         THEN [frame EXCEPT !.pc = "returned", !.inner = pc,
                 !.value = << "summary", "outline", "todos", None,
                              "txt_path", "docx_path", "json_path", "progress_text" >>]
         ELSE [frame EXCEPT !.pc = "raised", !.inner = pc, !.value = "ValueError"]
  /\ UNCHANGED << dir_parent, dir_name, dir_content, other, source, tree, fs, clock, runs, pc,
                  arg_vars, progress, idx, manifest, body_vars, tail_vars, calls, result,
                  prev >>

InitAdapter ==
  /\ dir_parent = SEG_AUDIO_ROOT
  /\ \E d \in AdapterDirs : dir_name = d.name /\ dir_content = d.content
  /\ fs = << >>
  /\ runs = 0
  /\ InitLocals

NextAdapter ==
  \/ AdapterCall(2)
  \/ Steps
  \/ AdapterFinish

SpecAdapter == InitAdapter /\ [][NextAdapter]_vars

(* C37 as stated: whenever the call of run_batch_process under            *)
(* process_audio_job completes successfully, process_audio_job returns its *)
(* tuple of eight values                                                   *)
C37_AdapterReturnsTuple ==
  ( /\ frame # None
    /\ frame.handler = "process_audio_job"
    /\ frame.inner = "done" ) =>
      /\ frame.pc = "returned"
      /\ Len(frame.value) = 8

====
